---------------------------- MODULE Spec2Model ----------------------------
(***************************************************************************)
(* Multi-band Fast Session Transfer (FST) of the directional link layer:   *)
(* the FST session handlers of RegularWifiMac, the band-switch routine of  *)
(* MultiBandNetDevice, and the per-MAC transmit queues they migrate.       *)
(*                                                                         *)
(* Every handler of the program is an operator from a program state        *)
(* (a record of all the objects' fields) to the program state it ends in;  *)
(* an action runs one handler to completion.                               *)
(***************************************************************************)
EXTENDS Integers, Sequences, FiniteSets, TLC

(***************************** bounds ***************************************)
MaxTime == 200        \* the simulation clock stops advancing here
FineTime == 20        \* up to here the clock also advances in single steps
MaxFstId == 2         \* SetupFSTSession calls per run
MaxTearDown == 1      \* SendFstTearDownFrame calls per run
MaxFrames == 3        \* data frames handed to MultiBandNetDevice::Send per run
MaxAgreements == 2    \* ADDBA responses received per run
MaxSwitches == 3      \* band switches forced by the operator per run
MaxItems == 2         \* frames plus agreements of a round-trip run
MaxResponses == 2     \* Setup-Responses of the outside station per run
MaxRegistrations == 3 \* AddNewWifiTechnology calls of a configuration run
MaxLookups == 1       \* GetTechnologyMac / GetTechnologyPhy calls per run
MaxRequests == 2      \* Setup-Requests of the outside station per run

(***************************** constants ************************************)
TimeScale == 32       \* countdown duration = LLT * 32 microseconds
LltWrap == 134217728  \* 2^27 = 2^32 / 32: LLT * 32 is a uint32_t product
DialogToken == 10     \* dialog token of every Setup-Request

Devices == {1, 2}                     \* two multi-band devices; address = id
Peers == {1, 2, 3}                    \* 3 is a station outside the model
Standards == {"80211ad", "80211n_5GHZ", "80211n_2_4GHZ"}
Registered == {"80211ad", "80211n_5GHZ"}
LLTValues == {0, 5}
TimeSteps == {10}
ACs == <<"AC_VO", "AC_VI", "AC_BE", "AC_BK">>
AcSet == {ACs[i] : i \in 1..4}
QueueIds == {"DCA"} \cup AcSet        \* m_txop plus the four m_edca queues

NullMac == <<0, "null">>
MacOf(d, std) == <<d, std>>
MACs == {MacOf(d, std) : d \in Devices, std \in Registered}
DeviceOf(m) == m[1]
StandardOf(m) == m[2]

VARIABLES
  now,              \* Simulator::Now, in microseconds
  m_fstSessionMap,  \* per MAC: peer address -> FstSession
  m_fstId,          \* per MAC: last session id generated
  m_llt,            \* per MAC: the LLT attribute
  txQueue,          \* per MAC, per queue id: the WifiMacQueue contents
  agreements,       \* per MAC, per access category: peer -> agreement
  events,           \* the scheduler's pending ChangeBand events, insertion order
  m_list,           \* per device: standard -> WifiTechnology
  m_active,         \* per device: m_mac, m_phy, m_stationManager, m_standard
  assocState,       \* per MAC: type of station, bssid, state, associated peers
  m_edca,           \* per MAC: the access categories that have a QosTxop
  crashed,          \* a fatal error or null dereference ended the run
  inFlight,         \* per MAC: the frame sent and not yet acknowledged
  lastEvent,        \* history: the handler that ran last and what it called
  bandChangedLog,   \* history: per device, the switches the FST sessions invoked
  switchHist,       \* history: the last consecutive operator-forced switches
  lastArmed,        \* history: per MAC and peer, when and by which handler a
                    \* countdown was last armed
  registered,       \* history: per device, the standards AddNewWifiTechnology
                    \* was called for
  counters          \* history: calls made by the environment, for the bounds

vars == <<now, m_fstSessionMap, m_fstId, m_llt, txQueue, agreements, events,
          m_list, m_active, assocState, m_edca, crashed, inFlight, lastEvent,
          bandChangedLog, switchHist, lastArmed, registered, counters>>

(* The program state a handler works on. *)
St == [sess |-> m_fstSessionMap, fid |-> m_fstId, llt |-> m_llt, q |-> txQueue,
       agr |-> agreements, ev |-> events, list |-> m_list, dev |-> m_active,
       assoc |-> assocState, edca |-> m_edca, crashed |-> crashed, log |-> <<>>,
       bcl |-> bandChangedLog, reg |-> registered, now |-> now]

Min(S) == CHOOSE x \in S : \A y \in S : x <= y

RECURSIVE SelectSeq2(_, _, _)
SelectSeq2(s, a, keep) ==
  IF s = <<>> THEN <<>>
  ELSE IF (Head(s).to = a) = keep
       THEN <<Head(s)>> \o SelectSeq2(Tail(s), a, keep)
       ELSE SelectSeq2(Tail(s), a, keep)

(* The frames of queue s addressed to a, in queue order. *)
FramesFor(s, a) == SelectSeq2(s, a, TRUE)
(* The frames of queue s not addressed to a, in queue order. *)
FramesNotFor(s, a) == SelectSeq2(s, a, FALSE)

(************************ the scheduler (EventId) ***************************)
Uids(st) == {st.ev[i].uid : i \in 1..Len(st.ev)}

(* Handles never alias: a new event gets the least uid that no pending event *)
(* and no session's stored handle uses.                                      *)
UsedUids(st) ==
  Uids(st) \cup {st.sess[m][a].Event : m \in MACs, a \in Peers}

NewUid(st) ==
  Min({u \in 1..(Cardinality(UsedUids(st)) + 1) : u \notin UsedUids(st)})

IsRunning(st, h) == h \in Uids(st)

Log(st, rec) == [st EXCEPT !.log = Append(@, rec)]

Cancel(st, h) ==
  Log([st EXCEPT !.ev = SelectSeq(@, LAMBDA e : e.uid # h)],
      [op |-> "Cancel", uid |-> h, wasRunning |-> IsRunning(st, h)])

(* Simulator::Schedule (MicroSeconds (delay), &RegularWifiMac::ChangeBand,   *)
(* this, peer, bandId, isInitiator); the handle returned is NewUid(st).      *)
Schedule(st, delay, m, peer, bandId, isInitiator) ==
  Log([st EXCEPT !.ev = Append(@, [uid |-> NewUid(st), time |-> st.now + delay,
                                   mac |-> m, peer |-> peer, bandId |-> bandId,
                                   isInitiator |-> isInitiator])],
      [op |-> "Schedule", uid |-> NewUid(st), delay |-> delay, mac |-> m,
       peer |-> peer, bandId |-> bandId, isInitiator |-> isInitiator])

(* fstSession->LLT * 32, a uint32_t product: (LLT * 32) mod 2^32, which is  *)
(* (LLT mod 2^27) * 32                                                       *)
Countdown(llt) == (llt % LltWrap) * TimeScale

(************************ the session table *********************************)
(* A session the map holds for no peer is NoSession.  m_fstSessionMap[a]    *)
(* on a peer without entry inserts a value-initialised FstSession: every     *)
(* scalar field is zero (state 0 is the initial state, band 0 is the TV      *)
(* white-space band of the Band ID field) and the EventId is not running.    *)
NoSession == [ID |-> 0, CurrentState |-> "absent", IsInitiator |-> FALSE,
              NewBandId |-> "none", LLT |-> 0, Event |-> 0]

DefaultSession == [ID |-> 0, CurrentState |-> "FST_INITIAL_STATE",
                   IsInitiator |-> FALSE, NewBandId |-> "Band_TVWS", LLT |-> 0,
                   Event |-> 0]

HasSession(st, m, a) == st.sess[m][a] # NoSession

(* m_fstSessionMap[a]: std::map::operator[] inserts a default entry *)
Touch(st, m, a) ==
  IF HasSession(st, m, a) THEN st
  ELSE Log([st EXCEPT !.sess[m][a] = DefaultSession],
           [op |-> "InsertDefault", mac |-> m, peer |-> a])

(* fstSession->CurrentState = state, on the entry operator[] returns *)
SetState(st, m, a, state) ==
  [Touch(st, m, a) EXCEPT !.sess[m][a].CurrentState = state]

(************************ queues *********************************************)
(* Txop::Queue on m_txop *)
Queue(st, m, frame) ==
  Log([st EXCEPT !.q[m]["DCA"] = Append(@, frame)],
      [op |-> "Queue", mac |-> m, frame |-> frame])

(* WifiMacQueue::TransferPacketsByAddress (addr, destQueue) called on the    *)
(* queue qid of MAC src with the queue qid of MAC dst.                       *)
TransferPacketsByAddress(st, src, dst, qid, addr) ==
  LET moved == FramesFor(st.q[src][qid], addr)
      rest == FramesNotFor(st.q[src][qid], addr)
      st1 == [st EXCEPT !.q[src][qid] = rest]
  IN  Log([st1 EXCEPT !.q[dst][qid] = @ \o moved],
          [op |-> "Transfer", queue |-> qid, from |-> src, to |-> dst,
           n |-> Len(moved)])

NoAgreement == [seq |-> 0, bufSize |-> 0, timeout |-> 0, present |-> FALSE]

(* QosTxop::CopyBlockAckAgreements (addr, target) *)
CopyBlockAckAgreements(st, src, dst, ac, addr) ==
  LET st1 == IF st.agr[src][ac][addr].present
             THEN [st EXCEPT !.agr[dst][ac][addr] = st.agr[src][ac][addr]]
             ELSE st
  IN  Log(st1, [op |-> "CopyAgreement", queue |-> ac, from |-> src, to |-> dst])

(************************ FST frames *****************************************)
SetupRequestFrame(to, from, id, llt) ==
  [type |-> "FST_SETUP_REQUEST", to |-> to, from |-> from, token |-> DialogToken,
   fstsID |-> id, newBand |-> "Band_4_9GHz", oldBand |-> "Band_60GHz",
   llt |-> llt, status |-> 0]

MgtFrame(type, to, from, token, id, status) ==
  [type |-> type, to |-> to, from |-> from, token |-> token, fstsID |-> id,
   newBand |-> "none", oldBand |-> "none", llt |-> 0, status |-> status]

DataFrame(to, from, id) ==
  [type |-> "DATA", to |-> to, from |-> from, token |-> 0, fstsID |-> id,
   newBand |-> "none", oldBand |-> "none", llt |-> 0, status |-> 0]

(* RegularWifiMac::SendFstSetupResponse *)
SendFstSetupResponse(st, m, to, token, status) ==
  Queue(st, m, MgtFrame("FST_SETUP_RESPONSE", to, DeviceOf(m), token, 0, status))

(* RegularWifiMac::SendFstAckRequest *)
SendFstAckRequest(st, m, to, dialog, fstsID) ==
  Queue(st, m, MgtFrame("FST_ACK_REQUEST", to, DeviceOf(m), dialog, fstsID, 0))

(* RegularWifiMac::SendFstAckResponse *)
SendFstAckResponse(st, m, to, dialog, fstsID) ==
  Queue(st, m, MgtFrame("FST_ACK_RESPONSE", to, DeviceOf(m), dialog, fstsID, 0))

(* RegularWifiMac::SendFstTearDownFrame: the frame always carries id 0 *)
SendFstTearDownFrame(st, m, to) ==
  Queue(st, m, MgtFrame("FST_TEAR_DOWN", to, DeviceOf(m), 0, 0, 0))

(************************ MultiBandNetDevice *********************************)
NoTechnology == [Phy |-> NullMac, Mac |-> NullMac, StationManager |-> NullMac,
                 Operational |-> FALSE, present |-> FALSE]

EmptyTechnology == [NoTechnology EXCEPT !.present = TRUE]

Technology(d, std) == [Phy |-> MacOf(d, std), Mac |-> MacOf(d, std),
                       StationManager |-> MacOf(d, std), Operational |-> TRUE,
                       present |-> TRUE]

(* m_list[standard]: std::map::operator[] inserts an empty WifiTechnology *)
TechnologyAt(st, d, std) ==
  IF st.list[d][std].present THEN st
  ELSE [st EXCEPT !.list[d][std] = EmptyTechnology]

(* Variant of SwitchTechnology that activates 5 GHz whatever is asked for *)
SwitchTechnology_Always5GHz(st, d, std) ==
  LET st1 == TechnologyAt(st, d, "80211n_5GHZ")
      technology == st1.list[d]["80211n_5GHZ"]
  IN  Log([st1 EXCEPT !.dev[d] = [m_mac |-> technology.Mac,
                                  m_phy |-> technology.Phy,
                                  m_stationManager |-> technology.StationManager,
                                  m_standard |-> "80211n_5GHZ"]],
          [op |-> "SwitchTechnology", device |-> d, standard |-> std])

(* Variant of SwitchTechnology that releases the objects of the bundle it    *)
(* leaves                                                                    *)
SwitchTechnology_ReleasesOld(st, d, std) ==
  LET st0 == [st EXCEPT !.list[d][st.dev[d].m_standard] = EmptyTechnology]
      st1 == TechnologyAt(st0, d, std)
      technology == st1.list[d][std]
  IN  Log([st1 EXCEPT !.dev[d] = [m_mac |-> technology.Mac,
                                  m_phy |-> technology.Phy,
                                  m_stationManager |-> technology.StationManager,
                                  m_standard |-> std]],
          [op |-> "SwitchTechnology", device |-> d, standard |-> std])

(* MultiBandNetDevice::SwitchTechnology *)
SwitchTechnology(st, d, std) ==
  LET st1 == TechnologyAt(st, d, std)
      technology == st1.list[d][std]
  IN  Log([st1 EXCEPT !.dev[d] = [m_mac |-> technology.Mac,
                                  m_phy |-> technology.Phy,
                                  m_stationManager |-> technology.StationManager,
                                  m_standard |-> std]],
          [op |-> "SwitchTechnology", device |-> d, standard |-> std])

(* MultiBandNetDevice::AddNewWifiTechnology: m_list[standard] = technology *)
AddNewWifiTechnology(st, d, phy, mac, station, standard, operational) ==
  Log([st EXCEPT !.list[d][standard] =
                    [Phy |-> phy, Mac |-> mac, StationManager |-> station,
                     Operational |-> operational, present |-> TRUE],
                 !.reg[d] = @ \cup {standard}],
      [op |-> "AddNewWifiTechnology", device |-> d, standard |-> standard])

(* MultiBandNetDevice::GetTechnologyMac *)
GetTechnologyMac(st, d, standard) ==
  LET st1 == TechnologyAt(st, d, standard)
  IN  Log(st1, [op |-> "GetTechnologyMac", device |-> d, standard |-> standard,
                result |-> st1.list[d][standard].Mac])

(* MultiBandNetDevice::GetTechnologyPhy *)
GetTechnologyPhy(st, d, standard) ==
  LET st1 == TechnologyAt(st, d, standard)
  IN  Log(st1, [op |-> "GetTechnologyPhy", device |-> d, standard |-> standard,
                result |-> st1.list[d][standard].Phy])

(* Variant of NotifyBandChanged in which the initiator sends no Ack Request *)
NotifyBandChanged_Silent(st, m, standard, address, isInitiator) ==
  Log(st, [op |-> "NotifyBandChanged", mac |-> m, peer |-> address,
           isInitiator |-> isInitiator])

(* RegularWifiMac::NotifyBandChanged *)
NotifyBandChanged(st, m, standard, address, isInitiator) ==
  LET st0 == Log(st, [op |-> "NotifyBandChanged", mac |-> m, peer |-> address,
                      isInitiator |-> isInitiator])
      st1 == Touch(st0, m, address)
  IN  IF isInitiator
      THEN SendFstAckRequest(st1, m, address, 0, st1.sess[m][address].ID)
      ELSE st0

(* Variant of TransferQueues that leaves the background queue alone *)
TransferQueues_SkipBK(st, oldMac, newMac, address) ==
  LET s1 == TransferPacketsByAddress(st, oldMac, newMac, "DCA", address)
      s2 == TransferPacketsByAddress(s1, oldMac, newMac, "AC_VO", address)
      s3 == TransferPacketsByAddress(s2, oldMac, newMac, "AC_VI", address)
  IN  TransferPacketsByAddress(s3, oldMac, newMac, "AC_BE", address)

(* BandChanged, lines 170-176: the DCA queue, then VO, VI, BE, BK *)
TransferQueues(st, oldMac, newMac, address) ==
  LET s1 == TransferPacketsByAddress(st, oldMac, newMac, "DCA", address)
      s2 == TransferPacketsByAddress(s1, oldMac, newMac, "AC_VO", address)
      s3 == TransferPacketsByAddress(s2, oldMac, newMac, "AC_VI", address)
      s4 == TransferPacketsByAddress(s3, oldMac, newMac, "AC_BE", address)
  IN  TransferPacketsByAddress(s4, oldMac, newMac, "AC_BK", address)

(* Variant of CopyAgreements that leaves the video queue alone *)
CopyAgreements_SkipVI(st, oldMac, newMac, address) ==
  LET s1 == CopyBlockAckAgreements(st, oldMac, newMac, "AC_VO", address)
      s3 == CopyBlockAckAgreements(s1, oldMac, newMac, "AC_BE", address)
  IN  CopyBlockAckAgreements(s3, oldMac, newMac, "AC_BK", address)

(* Variant of CopyAgreements that hands the agreements over: the old        *)
(* bundle's queues keep none for the peer                                    *)
CopyAgreements_Moving(st, oldMac, newMac, address) ==
  LET s1 == CopyBlockAckAgreements(st, oldMac, newMac, "AC_VO", address)
      s2 == CopyBlockAckAgreements(s1, oldMac, newMac, "AC_VI", address)
      s3 == CopyBlockAckAgreements(s2, oldMac, newMac, "AC_BE", address)
      s4 == CopyBlockAckAgreements(s3, oldMac, newMac, "AC_BK", address)
  IN  IF oldMac = newMac THEN s4
      ELSE [s4 EXCEPT !.agr[oldMac] =
              [ac \in AcSet |-> [@[ac] EXCEPT ![address] = NoAgreement]]]

(* BandChanged, lines 178-182 *)
CopyAgreements(st, oldMac, newMac, address) ==
  LET s1 == CopyBlockAckAgreements(st, oldMac, newMac, "AC_VO", address)
      s2 == CopyBlockAckAgreements(s1, oldMac, newMac, "AC_VI", address)
      s3 == CopyBlockAckAgreements(s2, oldMac, newMac, "AC_BE", address)
  IN  CopyBlockAckAgreements(s3, oldMac, newMac, "AC_BK", address)

(* Variant of CopyAssociationState in which a client takes over the BSS      *)
(* identifier only                                                           *)
CopyAssociationState_BssidOnly(st, d, oldMac, newMac, address) ==
  LET type == st.assoc[newMac].type
      st0 == Log(st, [op |-> "CopyAssociationState", mac |-> newMac])
  IN  IF type \in {"DMG_STA", "STA"}
      THEN [st0 EXCEPT !.assoc[newMac].bssid = st.assoc[oldMac].bssid]
      ELSE IF type \in {"AP", "DMG_AP"}
      THEN [st0 EXCEPT !.assoc[st.dev[d].m_stationManager].assocOk =
                          @ \cup {address}]
      ELSE st0

(* BandChanged, lines 184-203 *)
CopyAssociationState(st, d, oldMac, newMac, address) ==
  LET type == st.assoc[newMac].type
      st0 == Log(st, [op |-> "CopyAssociationState", mac |-> newMac])
  IN  IF type \in {"DMG_STA", "STA"}
      THEN [st0 EXCEPT !.assoc[newMac].bssid = st.assoc[oldMac].bssid,
                       !.assoc[newMac].state = st.assoc[oldMac].state]
      ELSE IF type \in {"AP", "DMG_AP"}
      THEN [st0 EXCEPT !.assoc[st.dev[d].m_stationManager].assocOk =
                          @ \cup {address}]
      ELSE st0

(* Variant of BandChanged that also migrates the frames of station 3 *)
BandChanged_AlsoPeer3(st, d, standard, address, isInitiator) ==
  LET oldMac == st.dev[d].m_mac
      st0 == Log(st, [op |-> "BandChanged", device |-> d, standard |-> standard,
                      peer |-> address, isInitiator |-> isInitiator])
      st1 == SwitchTechnology(st0, d, standard)
      newMac == st1.dev[d].m_mac
  IN  IF oldMac = NullMac \/ newMac = NullMac
      THEN [st1 EXCEPT !.crashed = TRUE]
      ELSE LET st2 == TransferQueues(TransferQueues(st1, oldMac, newMac, address),
                                     oldMac, newMac, 3)
               st3 == CopyAgreements(st2, oldMac, newMac, address)
               st4 == CopyAssociationState(st3, d, oldMac, newMac, address)
           IN  NotifyBandChanged(st4, newMac, standard, address, isInitiator)

(* Variant of BandChanged that notifies the new MAC before it migrates the   *)
(* queues                                                                    *)
BandChanged_NotifyFirst(st, d, standard, address, isInitiator) ==
  LET oldMac == st.dev[d].m_mac
      st0 == Log(st, [op |-> "BandChanged", device |-> d, standard |-> standard,
                      peer |-> address, isInitiator |-> isInitiator])
      st1 == SwitchTechnology(st0, d, standard)
      newMac == st1.dev[d].m_mac
  IN  IF oldMac = NullMac \/ newMac = NullMac
      THEN [st1 EXCEPT !.crashed = TRUE]
      ELSE LET st2 == NotifyBandChanged(st1, newMac, standard, address, isInitiator)
               st3 == TransferQueues(st2, oldMac, newMac, address)
               st4 == CopyAgreements(st3, oldMac, newMac, address)
           IN  CopyAssociationState(st4, d, oldMac, newMac, address)

(* Variant of BandChanged whose notification starts the switch for the same *)
(* peer once more                                                            *)
BandChanged_Reentered(st, d, standard, address, isInitiator) ==
  LET Run(s) ==
        LET oldMac == s.dev[d].m_mac
            st0 == Log(s, [op |-> "BandChanged", device |-> d,
                           standard |-> standard, peer |-> address,
                           isInitiator |-> isInitiator])
            st1 == SwitchTechnology(st0, d, standard)
            newMac == st1.dev[d].m_mac
        IN  IF oldMac = NullMac \/ newMac = NullMac
            THEN [st1 EXCEPT !.crashed = TRUE]
            ELSE LET st2 == TransferQueues(st1, oldMac, newMac, address)
                     st3 == CopyAgreements(st2, oldMac, newMac, address)
                     st4 == CopyAssociationState(st3, d, oldMac, newMac, address)
                 IN  NotifyBandChanged(st4, newMac, standard, address, isInitiator)
  IN  Run(Run(st))

(* MultiBandNetDevice::BandChanged.  A null old or new MAC is dereferenced   *)
(* at line 171: the run ends there.                                          *)
BandChanged(st, d, standard, address, isInitiator) ==
  LET oldMac == st.dev[d].m_mac
      st0 == Log(st, [op |-> "BandChanged", device |-> d, standard |-> standard,
                      peer |-> address, isInitiator |-> isInitiator])
      st1 == SwitchTechnology(st0, d, standard)
      newMac == st1.dev[d].m_mac
  IN  IF oldMac = NullMac \/ newMac = NullMac
      THEN [st1 EXCEPT !.crashed = TRUE]
      ELSE LET st2 == TransferQueues(st1, oldMac, newMac, address)
               st3 == CopyAgreements(st2, oldMac, newMac, address)
               st4 == CopyAssociationState(st3, d, oldMac, newMac, address)
           IN  NotifyBandChanged(st4, newMac, standard, address, isInitiator)

(************************ RegularWifiMac: FST ********************************)
(* m_bandChangedCallback of MAC m is BandChanged of the device that owns m;  *)
(* the history keeps the switches the FST state machine asked for.           *)
BandChangedCallback(st, m, standard, peerStation, isInitiator) ==
  BandChanged([st EXCEPT !.bcl[DeviceOf(m)] =
                 Append(@, [mac |-> m, standard |-> standard,
                            peer |-> peerStation, isInitiator |-> isInitiator,
                            at |-> st.now])],
              DeviceOf(m), standard, peerStation, isInitiator)

(* Variant of ChangeBand that takes the 4.9 GHz band id for the 60 GHz one *)
ChangeBand_SwappedBands(st, m, peerStation, bandId, isInitiator) ==
  LET st0 == Log(st, [op |-> "ChangeBand", mac |-> m, peer |-> peerStation,
                      bandId |-> bandId, isInitiator |-> isInitiator])
  IN  IF bandId = "Band_4_9GHz"
      THEN BandChangedCallback(st0, m, "80211ad", peerStation, isInitiator)
      ELSE IF bandId = "Band_60GHz"
      THEN BandChangedCallback(st0, m, "80211n_5GHZ", peerStation, isInitiator)
      ELSE st0

(* RegularWifiMac::ChangeBand *)
ChangeBand(st, m, peerStation, bandId, isInitiator) ==
  LET st0 == Log(st, [op |-> "ChangeBand", mac |-> m, peer |-> peerStation,
                      bandId |-> bandId, isInitiator |-> isInitiator])
  IN  IF bandId = "Band_60GHz"
      THEN BandChangedCallback(st0, m, "80211ad", peerStation, isInitiator)
      ELSE IF bandId = "Band_4_9GHz"
      THEN BandChangedCallback(st0, m, "80211n_5GHZ", peerStation, isInitiator)
      ELSE IF bandId = "Band_2_4GHz"
      THEN BandChangedCallback(st0, m, "80211n_2_4GHZ", peerStation, isInitiator)
      ELSE st0

(* Variant of SetupFSTSession whose Setup-Request carries the id before the *)
(* increment                                                                 *)
SetupFSTSession_StaleId(st, m, staAddress) ==
  LET id == st.fid[m] + 1
      st1 == [st EXCEPT !.fid[m] = id]
      fstSession == [ID |-> id, CurrentState |-> "FST_INITIAL_STATE",
                     IsInitiator |-> TRUE, NewBandId |-> "Band_4_9GHz",
                     LLT |-> st.llt[m], Event |-> 0]
      st2 == [st1 EXCEPT !.sess[m][staAddress] = fstSession]
  IN  Queue(st2, m, SetupRequestFrame(staAddress, DeviceOf(m), st.fid[m], st.llt[m]))

(* RegularWifiMac::SetupFSTSession *)
SetupFSTSession(st, m, staAddress) ==
  LET id == st.fid[m] + 1
      st1 == [st EXCEPT !.fid[m] = id]
      fstSession == [ID |-> id, CurrentState |-> "FST_INITIAL_STATE",
                     IsInitiator |-> TRUE, NewBandId |-> "Band_4_9GHz",
                     LLT |-> st.llt[m], Event |-> 0]
      st2 == [st1 EXCEPT !.sess[m][staAddress] = fstSession]
  IN  Queue(st2, m, SetupRequestFrame(staAddress, DeviceOf(m), id, st.llt[m]))

(* The countdown of both setup-completion branches: lines 1187-1194 (TxOk)   *)
(* and 1368-1375 (Receive).  The handle is stored without a Cancel.          *)
ArmCountdown(st, m, peer, isInitiator) ==
  LET s == st.sess[m][peer]
      uid == NewUid(st)
      st1 == Schedule(st, Countdown(s.LLT), m, peer, s.NewBandId, isInitiator)
  IN  [st1 EXCEPT !.sess[m][peer].Event = uid]

(* Variant of SetupCompletion without the LLT = 0 branch *)
SetupCompletion_AlwaysArm(st, m, peer, isInitiator) ==
  ArmCountdown(SetState(st, m, peer, "FST_SETUP_COMPLETION_STATE"),
               m, peer, isInitiator)

(* Lines 1178-1194 and 1357-1375: setup completion, common to the initiator  *)
(* (Setup-Response received) and the responder (Setup-Response acknowledged) *)
SetupCompletion(st, m, peer, isInitiator) ==
  LET st1 == SetState(st, m, peer, "FST_SETUP_COMPLETION_STATE")
  IN  IF st1.sess[m][peer].LLT = 0
      THEN ChangeBand(SetState(st1, m, peer, "FST_TRANSITION_DONE_STATE"),
                      m, peer, st1.sess[m][peer].NewBandId, isInitiator)
      ELSE ArmCountdown(st1, m, peer, isInitiator)

(* Variant of Receive that answers a Teardown with a Teardown *)
Receive_TeardownAnswered(st, m, f) ==
  IF f.to # DeviceOf(m) THEN st
  ELSE IF f.type = "FST_SETUP_REQUEST"
  THEN LET fstSession == [ID |-> f.fstsID,
                          CurrentState |-> "FST_INITIAL_STATE",
                          IsInitiator |-> FALSE, NewBandId |-> f.newBand,
                          LLT |-> f.llt, Event |-> 0]
           st1 == [st EXCEPT !.sess[m][f.from] = fstSession]
       IN  SendFstSetupResponse(st1, m, f.from, f.token, 0)
  ELSE IF f.type = "FST_SETUP_RESPONSE"
  THEN IF f.status = 0 THEN SetupCompletion(st, m, f.from, TRUE) ELSE st
  ELSE IF f.type = "FST_TEAR_DOWN"
  THEN SendFstTearDownFrame(SetState(st, m, f.from, "FST_INITIAL_STATE"),
                            m, f.from)
  ELSE IF f.type = "FST_ACK_REQUEST"
  THEN SendFstAckResponse(st, m, f.from, f.token, f.fstsID)
  ELSE IF f.type = "FST_ACK_RESPONSE"
  THEN SetState(st, m, f.from, "FST_TRANSITION_CONFIRMED_STATE")
  ELSE st

(* Variant of Receive in which the responder's session takes the LLT of the  *)
(* responder's own attribute                                                 *)
Receive_OwnLlt(st, m, f) ==
  IF f.to # DeviceOf(m) THEN st
  ELSE IF f.type = "FST_SETUP_REQUEST"
  THEN LET fstSession == [ID |-> f.fstsID,
                          CurrentState |-> "FST_INITIAL_STATE",
                          IsInitiator |-> FALSE, NewBandId |-> f.newBand,
                          LLT |-> st.llt[m], Event |-> 0]
           st1 == [st EXCEPT !.sess[m][f.from] = fstSession]
       IN  SendFstSetupResponse(st1, m, f.from, f.token, 0)
  ELSE IF f.type = "FST_SETUP_RESPONSE"
  THEN IF f.status = 0 THEN SetupCompletion(st, m, f.from, TRUE) ELSE st
  ELSE IF f.type = "FST_TEAR_DOWN"
  THEN SetState(st, m, f.from, "FST_INITIAL_STATE")
  ELSE IF f.type = "FST_ACK_REQUEST"
  THEN SendFstAckResponse(st, m, f.from, f.token, f.fstsID)
  ELSE IF f.type = "FST_ACK_RESPONSE"
  THEN SetState(st, m, f.from, "FST_TRANSITION_CONFIRMED_STATE")
  ELSE st

(* RegularWifiMac::Receive, the FST action frames (lines 1328-1415) *)
Receive(st, m, f) ==
  IF f.to # DeviceOf(m) THEN st
  ELSE IF f.type = "FST_SETUP_REQUEST"
  THEN LET fstSession == [ID |-> f.fstsID,
                          CurrentState |-> "FST_INITIAL_STATE",
                          IsInitiator |-> FALSE, NewBandId |-> f.newBand,
                          LLT |-> f.llt, Event |-> 0]
           st1 == [st EXCEPT !.sess[m][f.from] = fstSession]
       IN  SendFstSetupResponse(st1, m, f.from, f.token, 0)
  ELSE IF f.type = "FST_SETUP_RESPONSE"
  THEN IF f.status = 0 THEN SetupCompletion(st, m, f.from, TRUE) ELSE st
  ELSE IF f.type = "FST_TEAR_DOWN"
  THEN SetState(st, m, f.from, "FST_INITIAL_STATE")
  ELSE IF f.type = "FST_ACK_REQUEST"
  THEN SendFstAckResponse(st, m, f.from, f.token, f.fstsID)
  ELSE IF f.type = "FST_ACK_RESPONSE"
  THEN SetState(st, m, f.from, "FST_TRANSITION_CONFIRMED_STATE")
  ELSE st

(* Variant of TxOk that completes the setup as the initiator does *)
TxOk_AsInitiator(st, m, f) ==
  IF f.type = "FST_SETUP_RESPONSE"
  THEN SetupCompletion(st, m, f.to, TRUE)
  ELSE IF f.type = "FST_ACK_RESPONSE"
  THEN SetState(st, m, f.to, "FST_TRANSITION_CONFIRMED_STATE")
  ELSE st

(* RegularWifiMac::TxOk *)
TxOk(st, m, f) ==
  IF f.type = "FST_SETUP_RESPONSE"
  THEN SetupCompletion(st, m, f.to, FALSE)
  ELSE IF f.type = "FST_ACK_RESPONSE"
  THEN SetState(st, m, f.to, "FST_TRANSITION_CONFIRMED_STATE")
  ELSE st

(* Lines 153-160 and 172-179: the refresh of the link-loss countdown *)
RefreshCountdown(st, m, address) ==
  LET s == st.sess[m][address]
  IN  IF HasSession(st, m, address)
         /\ s.CurrentState = "FST_SETUP_COMPLETION_STATE"
         /\ IsRunning(st, s.Event)
      THEN ArmCountdown(Cancel(st, s.Event), m, address, s.IsInitiator)
      ELSE st

(* Variant of MacTxOk that re-arms the countdown of a session in             *)
(* SETUP_COMPLETION also when none is running                                *)
MacTxOk_AlwaysArms(st, m, address) ==
  LET s == st.sess[m][address]
  IN  IF HasSession(st, m, address)
         /\ s.CurrentState = "FST_SETUP_COMPLETION_STATE"
      THEN ArmCountdown(Cancel(st, s.Event), m, address, s.IsInitiator)
      ELSE st

(* RegularWifiMac::MacTxOk *)
MacTxOk(st, m, address) == RefreshCountdown(st, m, address)

(* RegularWifiMac::MacRxOk *)
MacRxOk(st, m, address) == RefreshCountdown(st, m, address)

(************************ initial state **************************************)
NoFrame == MgtFrame("none", 0, 0, 0, 0, 0)

StationType(m) ==
  IF DeviceOf(m) = 1
  THEN (IF StandardOf(m) = "80211ad" THEN "DMG_STA" ELSE "STA")
  ELSE (IF StandardOf(m) = "80211ad" THEN "DMG_AP" ELSE "AP")

(* Both devices were configured with the 60 GHz and the 5 GHz technology and *)
(* activated on 60 GHz; device 1 is a station associated with device 2, the  *)
(* access point, on 60 GHz.  All MACs are configured with the same LLT.       *)
InitAssoc(m) ==
  [type |-> StationType(m),
   bssid |-> IF StandardOf(m) = "80211ad" \/ DeviceOf(m) = 2 THEN 2 ELSE 0,
   state |-> IF StandardOf(m) = "80211ad" /\ DeviceOf(m) = 1
             THEN "ASSOCIATED" ELSE "UNASSOCIATED",
   assocOk |-> IF StandardOf(m) = "80211ad" /\ DeviceOf(m) = 2 THEN {1} ELSE {}]

NoEvent == [kind |-> "Init", mac |-> NullMac, peer |-> 0, frame |-> NoFrame,
            pre |-> NoSession, preRunning |-> FALSE, at |-> 0, log |-> <<>>]

InitProgram ==
  /\ now = 0
  /\ m_fstSessionMap = [m \in MACs |-> [a \in Peers |-> NoSession]]
  /\ m_fstId = [m \in MACs |-> 0]
  /\ txQueue = [m \in MACs |-> [qid \in QueueIds |-> <<>>]]
  /\ agreements = [m \in MACs |-> [ac \in AcSet |-> [a \in Peers |-> NoAgreement]]]
  /\ events = <<>>
  /\ m_list = [d \in Devices |-> [std \in Standards |->
                 IF std \in Registered THEN Technology(d, std) ELSE NoTechnology]]
  /\ m_active = [d \in Devices |-> [m_mac |-> MacOf(d, "80211ad"),
                                    m_phy |-> MacOf(d, "80211ad"),
                                    m_stationManager |-> MacOf(d, "80211ad"),
                                    m_standard |-> "80211ad"]]
  /\ m_edca = [m \in MACs |-> AcSet]
  /\ crashed = FALSE
  /\ inFlight = [m \in MACs |-> NoFrame]
  /\ lastEvent = NoEvent
  /\ bandChangedLog = [d \in Devices |-> <<>>]
  /\ switchHist = <<>>
  /\ lastArmed = [m \in MACs |-> [a \in Peers |-> [at |-> 0, by |-> "setup"]]]
  /\ registered = [d \in Devices |-> Registered]
  /\ counters = [setups |-> 0, teardowns |-> 0, frames |-> 0, agreements |-> 0,
                 switches |-> 0, responses |-> 0, registrations |-> 0,
                 lookups |-> 0, requests |-> 0]

InitCommon ==
  /\ InitProgram
  /\ assocState = [m \in MACs |-> InitAssoc(m)]

Init ==
  /\ InitCommon
  /\ \E l \in LLTValues : m_llt = [m \in MACs |-> l]

(************************ actions ********************************************)
(* An acknowledgement follows the reception one SIFS later: no other event   *)
(* runs in between.                                                          *)
NoneInFlight == \A m \in MACs : inFlight[m] = NoFrame

(* The handler's result becomes the program state. *)
Commit(st, kind, m, a, f) ==
  /\ m_fstSessionMap' = st.sess
  /\ m_fstId' = st.fid
  /\ m_llt' = st.llt
  /\ txQueue' = st.q
  /\ agreements' = st.agr
  /\ events' = st.ev
  /\ m_list' = st.list
  /\ m_active' = st.dev
  /\ assocState' = st.assoc
  /\ m_edca' = st.edca
  /\ crashed' = st.crashed
  /\ bandChangedLog' = st.bcl
  /\ registered' = st.reg
  /\ lastEvent' = [kind |-> kind, mac |-> m, peer |-> a, frame |-> f,
                   pre |-> m_fstSessionMap[m][a],
                   preRunning |-> m_fstSessionMap[m][a].Event \in Uids(St),
                   at |-> now,
                   log |-> st.log]
  /\ lastArmed' = [x \in MACs |-> [y \in Peers |->
                     IF \E i \in 1..Len(st.log) :
                          /\ st.log[i].op = "Schedule"
                          /\ st.log[i].mac = x
                          /\ st.log[i].peer = y
                     THEN [at |-> now,
                           by |-> IF kind \in {"MacTxOk", "MacRxOk"}
                                  THEN "refresh" ELSE "setup"]
                     ELSE lastArmed[x][y]]]

(* MultiBandNetDevice::EstablishFastSessionTransferSession.  The request    *)
(* names 60 GHz as the old band: the caller is on that band.                 *)
EstablishFastSessionTransferSession(d, a) ==
  /\ ~crashed
  /\ NoneInFlight
  /\ m_active[d].m_mac # NullMac
  /\ m_active[d].m_standard = "80211ad"
  /\ counters.setups < MaxFstId
  /\ Commit(SetupFSTSession(St, m_active[d].m_mac, a), "SetupFSTSession",
            m_active[d].m_mac, a, NoFrame)
  /\ counters' = [counters EXCEPT !.setups = @ + 1]
  /\ UNCHANGED <<now, inFlight, switchHist>>

(* A call of SendFstTearDownFrame on the active MAC *)
TearDown(d, a) ==
  /\ ~crashed
  /\ NoneInFlight
  /\ m_active[d].m_mac # NullMac
  /\ counters.teardowns < MaxTearDown
  /\ Commit(SendFstTearDownFrame(St, m_active[d].m_mac, a), "SendFstTearDownFrame",
            m_active[d].m_mac, a, NoFrame)
  /\ counters' = [counters EXCEPT !.teardowns = @ + 1]
  /\ UNCHANGED <<now, inFlight, switchHist>>

(* MAC m sends the head of its DCA queue on its band; the MAC of the         *)
(* addressed device on that band receives it (RegularWifiMac::Receive).      *)
Deliver(m) ==
  /\ ~crashed
  /\ NoneInFlight
  /\ txQueue[m]["DCA"] # <<>>
  /\ LET f == Head(txQueue[m]["DCA"])
         st0 == [St EXCEPT !.q[m]["DCA"] = Tail(@)]
         r == MacOf(f.to, StandardOf(m))
     IN  /\ f.type # "DATA"
         /\ IF r \in MACs
            THEN Commit(Receive(st0, r, f), "Receive", r, f.from, f)
            ELSE Commit(st0, "Transmit", m, f.to, f)
         /\ inFlight' = [inFlight EXCEPT ![m] = f]
  /\ UNCHANGED <<now, counters, switchHist>>

(* The acknowledgement of the frame in flight reaches its sender             *)
(* (RegularWifiMac::TxOk).                                                   *)
Acked(m) ==
  /\ ~crashed
  /\ inFlight[m] # NoFrame
  /\ Commit(TxOk(St, m, inFlight[m]), "TxOk", m, inFlight[m].to, inFlight[m])
  /\ inFlight' = [inFlight EXCEPT ![m] = NoFrame]
  /\ UNCHANGED <<now, counters, switchHist>>

(* The station manager reports a successful transmission to address a.  A   *)
(* call that changes nothing leaves no trace in the history either.          *)
MacTxOkEvent(m, a) ==
  /\ ~crashed
  /\ NoneInFlight
  /\ IF MacTxOk(St, m, a) = St
     THEN UNCHANGED <<m_fstSessionMap, m_fstId, m_llt, txQueue, agreements,
                      events, m_list, m_active, assocState, m_edca, crashed,
                      lastEvent, bandChangedLog, lastArmed, registered>>
     ELSE Commit(MacTxOk(St, m, a), "MacTxOk", m, a, NoFrame)
  /\ UNCHANGED <<now, inFlight, counters, switchHist>>

(* The station manager reports a successful reception from address a *)
MacRxOkEvent(m, a) ==
  /\ ~crashed
  /\ NoneInFlight
  /\ IF MacRxOk(St, m, a) = St
     THEN UNCHANGED <<m_fstSessionMap, m_fstId, m_llt, txQueue, agreements,
                      events, m_list, m_active, assocState, m_edca, crashed,
                      lastEvent, bandChangedLog, lastArmed, registered>>
     ELSE Commit(MacRxOk(St, m, a), "MacRxOk", m, a, NoFrame)
  /\ UNCHANGED <<now, inFlight, counters, switchHist>>

(* The scheduler runs the earliest pending event when its time has come;     *)
(* events of the same time run in insertion order.                           *)
NextEventIndex ==
  Min({i \in 1..Len(events) : \A j \in 1..Len(events) :
         events[i].time <= events[j].time})

Expire ==
  /\ ~crashed
  /\ NoneInFlight
  /\ events # <<>>
  /\ LET e == events[NextEventIndex]
         st0 == [St EXCEPT !.ev = SelectSeq(@, LAMBDA x : x.uid # e.uid)]
     IN  /\ e.time = now
         /\ Commit(ChangeBand(st0, e.mac, e.peer, e.bandId, e.isInitiator),
                   "Expire", e.mac, e.peer, NoFrame)
  /\ UNCHANGED <<now, inFlight, counters, switchHist>>

(* Simulation time passes, never beyond the next pending event *)
AdvanceTo(t) ==
  /\ ~crashed
  /\ NoneInFlight
  /\ t > now
  /\ t <= MaxTime
  /\ \A i \in 1..Len(events) : t <= events[i].time
  /\ now' = t
  /\ UNCHANGED <<m_fstSessionMap, m_fstId, m_llt, txQueue, agreements, events,
                 m_list, m_active, assocState, m_edca, crashed, inFlight,
                 lastEvent, bandChangedLog, switchHist, lastArmed, registered,
                 counters>>

(* Time passes by one step of the clock *)
Tick == \E step \in TimeSteps : now + step <= FineTime /\ AdvanceTo(now + step)

(* Time passes until the next pending event is due *)
Idle == \E i \in 1..Len(events) : AdvanceTo(events[i].time)

(* The data frames of one run are of one traffic class: every data frame of *)
(* device d so far went to queue qid.                                        *)
OneClass(d, qid) ==
  \A m \in MACs : \A q \in QueueIds \ {qid} :
    DeviceOf(m) = d =>
      \A i \in 1..Len(txQueue[m][q]) : txQueue[m][q][i].type # "DATA"

(* Variant of Send that enqueues on the MAC the device was activated with *)
Send_OnFirstMac(d, dest, qid) ==
  /\ ~crashed
  /\ NoneInFlight
  /\ m_active[d].m_mac # NullMac
  /\ counters.frames < MaxFrames
  /\ OneClass(d, qid)
  /\ LET m == MacOf(d, "80211ad")
         frame == DataFrame(dest, d, counters.frames + 1)
     IN  Commit(Log([St EXCEPT !.q[m][qid] = Append(@, frame)],
                    [op |-> "Enqueue", mac |-> m, frame |-> frame]),
                "Send", m, dest, frame)
  /\ counters' = [counters EXCEPT !.frames = @ + 1]
  /\ switchHist' = <<>>
  /\ UNCHANGED <<now, inFlight>>

(* MultiBandNetDevice::Send: the frame joins a queue of the active MAC; the  *)
(* MAC's Enqueue picks the queue from the frame's traffic class.             *)
Send(d, dest, qid) ==
  /\ ~crashed
  /\ NoneInFlight
  /\ m_active[d].m_mac # NullMac
  /\ counters.frames < MaxFrames
  /\ OneClass(d, qid)
  /\ LET m == m_active[d].m_mac
         frame == DataFrame(dest, d, counters.frames + 1)
     IN  Commit(Log([St EXCEPT !.q[m][qid] = Append(@, frame)],
                    [op |-> "Enqueue", mac |-> m, frame |-> frame]),
                "Send", m, dest, frame)
  /\ counters' = [counters EXCEPT !.frames = @ + 1]
  /\ switchHist' = <<>>
  /\ UNCHANGED <<now, inFlight>>

(* The parameters of the k-th agreement negotiated in a run *)
AgreementSamples ==
  [k \in 1..(MaxAgreements + 1) |->
     [seq |-> 7 * k, bufSize |-> 64 - k, timeout |-> 100 * (k - 1),
      present |-> TRUE]]

(* Receive, lines 1280-1295: an ADDBA response from a establishes the        *)
(* agreement on the queue of its access category.                            *)
GotAddBaResponse(d, ac, a) ==
  /\ ~crashed
  /\ NoneInFlight
  /\ m_active[d].m_mac # NullMac
  /\ counters.agreements < MaxAgreements
  /\ LET m == m_active[d].m_mac
         agreement == AgreementSamples[counters.agreements + 1]
     IN  Commit(Log([St EXCEPT !.agr[m][ac][a] = agreement],
                    [op |-> "GotAddBaResponse", mac |-> m, queue |-> ac]),
                "GotAddBaResponse", m, a, NoFrame)
  /\ counters' = [counters EXCEPT !.agreements = @ + 1]
  /\ switchHist' = <<>>
  /\ UNCHANGED <<now, inFlight>>

(* What a forced switch found before it ran *)
SwitchRecord(d, standard, address, isInitiator) ==
  [device |-> d, from |-> m_active[d].m_standard, to |-> standard,
   peer |-> address, isInitiator |-> isInitiator, preQ |-> txQueue,
   preAgr |-> agreements]

(* The operator calls MultiBandNetDevice::BandChanged *)
ForceBandChanged(d, standard, address, isInitiator) ==
  /\ ~crashed
  /\ NoneInFlight
  /\ counters.switches < MaxSwitches
  /\ Commit(BandChanged(St, d, standard, address, isInitiator), "BandChanged",
            m_active[d].m_mac, address, NoFrame)
  /\ counters' = [counters EXCEPT !.switches = @ + 1]
  /\ switchHist' = (IF switchHist = <<>> THEN <<>>
                    ELSE <<switchHist[Len(switchHist)]>>)
                   \o <<SwitchRecord(d, standard, address, isInitiator)>>
  /\ UNCHANGED <<now, inFlight>>

(* The result of a call on the device becomes the program state. *)
CommitDevice(st, kind) ==
  /\ m_fstSessionMap' = st.sess
  /\ m_fstId' = st.fid
  /\ m_llt' = st.llt
  /\ txQueue' = st.q
  /\ agreements' = st.agr
  /\ events' = st.ev
  /\ m_list' = st.list
  /\ m_active' = st.dev
  /\ assocState' = st.assoc
  /\ m_edca' = st.edca
  /\ crashed' = st.crashed
  /\ bandChangedLog' = st.bcl
  /\ registered' = st.reg
  /\ lastEvent' = [NoEvent EXCEPT !.kind = kind, !.at = now, !.log = st.log]
  /\ UNCHANGED <<now, inFlight, switchHist, lastArmed>>

(* What a call on the device found before it ran *)
Before(d) ==
  [op |-> "Before", device |-> d, list |-> m_list[d], dev |-> m_active[d],
   reg |-> registered[d], q |-> txQueue, agr |-> agreements,
   sess |-> m_fstSessionMap]

(* The objects of a bundle the configuration can register on device d *)
Bundles(d) == {MacOf(d, std) : std \in Registered}

(* The configuration registers the bundle b under a standard *)
Register(d, b, standard, operational) ==
  /\ ~crashed
  /\ counters.registrations < MaxRegistrations
  /\ CommitDevice(AddNewWifiTechnology(Log(St, Before(d)), d, b, b, b, standard,
                                       operational),
                  "AddNewWifiTechnology")
  /\ counters' = [counters EXCEPT !.registrations = @ + 1]

(* The configuration activates a standard (MultiBandNetDevice::SwitchTechnology) *)
Activate(d, standard) ==
  /\ ~crashed
  /\ counters.switches < MaxSwitches
  /\ CommitDevice(SwitchTechnology(Log(St, Before(d)), d, standard),
                  "SwitchTechnology")
  /\ counters' = [counters EXCEPT !.switches = @ + 1]

(* A caller asks for the MAC or the PHY of a standard *)
Lookup(d, standard, member) ==
  /\ ~crashed
  /\ counters.lookups < MaxLookups
  /\ CommitDevice(IF member = "Mac"
                  THEN GetTechnologyMac(Log(St, Before(d)), d, standard)
                  ELSE GetTechnologyPhy(Log(St, Before(d)), d, standard),
                  "GetTechnology" \o member)
  /\ counters' = [counters EXCEPT !.lookups = @ + 1]

(* Station 3, which is not one of the modelled devices, answers a            *)
(* Setup-Request of device d on the band of MAC m with a Setup-Response of   *)
(* the given status code (RegularWifiMac::Receive).                          *)
OutsideStation == CHOOSE a \in Peers : a \notin Devices

SetupResponseFromOutside(m, status) ==
  /\ ~crashed
  /\ NoneInFlight
  /\ counters.responses < MaxResponses
  /\ HasSession(St, m, OutsideStation)
  /\ LET f == MgtFrame("FST_SETUP_RESPONSE", DeviceOf(m), OutsideStation,
                       DialogToken, m_fstSessionMap[m][OutsideStation].ID, status)
     IN  Commit(Receive(St, m, f), "Receive", m, OutsideStation, f)
  /\ counters' = [counters EXCEPT !.responses = @ + 1]
  /\ UNCHANGED <<now, inFlight, switchHist>>

(* The band ids a Setup-Request of the outside station may name: the 5 GHz   *)
(* band, the 2.4 GHz band, for which the devices have no bundle, and the TV  *)
(* white-space band, which ChangeBand maps to no technology.                 *)
RequestedBands == {"Band_4_9GHz", "Band_2_4GHz", "Band_TVWS"}

(* Station 3 asks MAC m for a session transfer to band bandId with the given *)
(* link-loss timeout (RegularWifiMac::Receive).                              *)
SetupRequestFromOutside(m, bandId, llt) ==
  /\ ~crashed
  /\ NoneInFlight
  /\ counters.requests < MaxRequests
  /\ m = m_active[DeviceOf(m)].m_mac
  /\ LET f == [SetupRequestFrame(DeviceOf(m), OutsideStation,
                                 counters.requests + 1, llt)
                 EXCEPT !.newBand = bandId]
     IN  Commit(Receive(St, m, f), "Receive", m, OutsideStation, f)
  /\ counters' = [counters EXCEPT !.requests = @ + 1]
  /\ UNCHANGED <<now, inFlight, switchHist>>

Initiators == {1}

Next ==
  \/ \E d \in Initiators : \E a \in Devices \ {d} : EstablishFastSessionTransferSession(d, a)
  \/ \E d \in Devices : \E a \in Devices \ {d} : TearDown(d, a)
  \/ \E m \in MACs : Deliver(m)
  \/ \E m \in MACs : Acked(m)
  \/ \E m \in MACs : \E a \in Devices \ {DeviceOf(m)} : MacTxOkEvent(m, a)
  \/ \E m \in MACs : \E a \in Devices \ {DeviceOf(m)} : MacRxOkEvent(m, a)
  \/ Expire
  \/ Idle

(* The FST protocol between the two devices *)
Spec == Init /\ [][Next]_vars

NextRefresh ==
  \/ \E d \in Initiators : \E a \in Devices \ {d} : EstablishFastSessionTransferSession(d, a)
  \/ \E m \in MACs : Deliver(m)
  \/ \E m \in MACs : Acked(m)
  \/ \E m \in MACs : \E a \in Devices \ {DeviceOf(m)} : MacTxOkEvent(m, a)
  \/ \E m \in MACs : \E a \in Devices \ {DeviceOf(m)} : MacRxOkEvent(m, a)
  \/ Expire
  \/ Tick
  \/ Idle

(* The FST protocol without teardown, on a clock that resolves the instants *)
(* of the data exchanges                                                    *)
SpecRefresh == Init /\ [][NextRefresh]_vars

StatusCodes == {0, 1}

NextReject ==
  \/ EstablishFastSessionTransferSession(1, OutsideStation)
  \/ \E m \in MACs : \E status \in StatusCodes : SetupResponseFromOutside(m, status)
  \/ \E m \in MACs : Deliver(m)
  \/ \E m \in MACs : Acked(m)
  \/ Expire
  \/ Idle

(* Device 1 negotiates with a station that may refuse the transfer *)
SpecReject == Init /\ [][NextReject]_vars

NextForeign ==
  \/ \E m \in Bundles(1) : \E bandId \in RequestedBands : \E llt \in LLTValues :
        SetupRequestFromOutside(m, bandId, llt)
  \/ \E m \in MACs : Deliver(m)
  \/ \E m \in MACs : Acked(m)
  \/ Expire
  \/ Idle

(* Device 1 is the responder of transfers a station outside asks for *)
SpecForeign == Init /\ [][NextForeign]_vars

(* Data is exchanged with the peer up to FineTime, and not after *)
DataExchange ==
  /\ now <= FineTime
  /\ \E m \in MACs : \E a \in Devices \ {DeviceOf(m)} :
        MacTxOkEvent(m, a) \/ MacRxOkEvent(m, a)

NextLive ==
  \/ EstablishFastSessionTransferSession(1, 2)
  \/ \E m \in MACs : Deliver(m)
  \/ \E m \in MACs : Acked(m)
  \/ DataExchange
  \/ Expire
  \/ Tick
  \/ Idle

(* The conditions under which a frame can be sent, an acknowledgement can    *)
(* arrive and a scheduled event is due                                       *)
CanDeliver ==
  /\ ~crashed
  /\ NoneInFlight
  /\ \E m \in MACs :
       /\ txQueue[m]["DCA"] # <<>>
       /\ Head(txQueue[m]["DCA"]).type # "DATA"

CanAck == ~crashed /\ \E m \in MACs : inFlight[m] # NoFrame

Due ==
  /\ ~crashed
  /\ NoneInFlight
  /\ events # <<>>
  /\ events[NextEventIndex].time = now

(* The FST protocol without teardown, where every queued frame is sent and   *)
(* acknowledged, the scheduler runs every event that is due and the clock    *)
(* advances.  The weak fairness of Deliver, Acked and Expire is written out  *)
(* with the action's enabling condition.                                     *)
SpecLive ==
  /\ Init
  /\ [][NextLive]_vars
  /\ ([]<>(~CanDeliver) \/ []<><<\E m \in MACs : Deliver(m)>>_vars)
  /\ ([]<>(~CanAck) \/ []<><<\E m \in MACs : Acked(m)>>_vars)
  /\ ([]<>(~Due) \/ []<><<Expire>>_vars)
  /\ WF_vars(Tick)
  /\ WF_vars(Idle)

(* A device after construction: nothing is registered, the active pointers   *)
(* are null and m_standard, which the constructor does not initialise, holds *)
(* any value.                                                                *)
InitDevice ==
  /\ now = 0
  /\ m_fstSessionMap = [m \in MACs |-> [a \in Peers |-> NoSession]]
  /\ m_fstId = [m \in MACs |-> 0]
  /\ m_llt = [m \in MACs |-> 0]
  /\ txQueue = [m \in MACs |-> [qid \in QueueIds |-> <<>>]]
  /\ agreements = [m \in MACs |-> [ac \in AcSet |-> [a \in Peers |-> NoAgreement]]]
  /\ events = <<>>
  /\ m_list = [d \in Devices |-> [std \in Standards |-> NoTechnology]]
  /\ \E std \in Standards :
       m_active = [d \in Devices |-> [m_mac |-> NullMac, m_phy |-> NullMac,
                                      m_stationManager |-> NullMac,
                                      m_standard |-> std]]
  /\ assocState = [m \in MACs |-> InitAssoc(m)]
  /\ crashed = FALSE
  /\ inFlight = [m \in MACs |-> NoFrame]
  /\ lastEvent = NoEvent
  /\ bandChangedLog = [d \in Devices |-> <<>>]
  /\ switchHist = <<>>
  /\ lastArmed = [m \in MACs |-> [a \in Peers |-> [at |-> 0, by |-> "setup"]]]
  /\ registered = [d \in Devices |-> {}]
  /\ counters = [setups |-> 0, teardowns |-> 0, frames |-> 0, agreements |-> 0,
                 switches |-> 0, responses |-> 0, registrations |-> 0,
                 lookups |-> 0, requests |-> 0]

(* The MACs the configuration will register have been constructed *)
InitTable ==
  /\ InitDevice
  /\ m_edca = [m \in MACs |-> AcSet]

NextTable ==
  \/ \E b \in Bundles(1) : \E standard \in Standards :
        Register(1, b, standard, b = MacOf(1, standard))
  \/ \E standard \in Standards : Activate(1, standard)
  \/ \E standard \in Standards : \E member \in {"Mac", "Phy"} :
        Lookup(1, standard, member)

(* The configuration of device 1: bundles are registered, looked up and      *)
(* activated                                                                 *)
SpecTable == InitTable /\ [][NextTable]_vars

(************************ RegularWifiMac: construction ***********************)
(* Variant of SetupEdcaQueue that does without the assertion *)
SetupEdcaQueue_Unchecked(st, m, ac) ==
  [Log(st, [op |-> "SetupEdcaQueue", mac |-> m, ac |-> ac])
     EXCEPT !.edca[m] = @ \cup {ac}]

(* RegularWifiMac::SetupEdcaQueue.  The assertion ends the run when the      *)
(* access category already has a queue.                                      *)
SetupEdcaQueue(st, m, ac) ==
  LET st0 == Log(st, [op |-> "SetupEdcaQueue", mac |-> m, ac |-> ac])
  IN  IF ac \in st.edca[m]
      THEN [st0 EXCEPT !.crashed = TRUE]
      ELSE [st0 EXCEPT !.edca[m] = @ \cup {ac}]

(* The constructor of RegularWifiMac: the session id counter starts at 0,    *)
(* then the four EDCA queues are set up.                                     *)
RegularWifiMac(st, m) ==
  LET st0 == [Log(st, [op |-> "RegularWifiMac", mac |-> m]) EXCEPT !.fid[m] = 0]
      s1 == SetupEdcaQueue(st0, m, "AC_VO")
      s2 == SetupEdcaQueue(s1, m, "AC_VI")
      s3 == SetupEdcaQueue(s2, m, "AC_BE")
  IN  SetupEdcaQueue(s3, m, "AC_BK")

(* A MAC object exists once its constructor has run; m_edca of a MAC that    *)
(* is yet to be constructed is the empty map.                                *)
Built(m) == m_edca[m] # {}

(* The configuration creates the MAC m *)
Construct(m) ==
  /\ ~crashed
  /\ ~Built(m)
  /\ CommitDevice(RegularWifiMac(St, m), "RegularWifiMac")
  /\ UNCHANGED counters

(* No MAC has been constructed yet *)
InitEdca ==
  /\ InitDevice
  /\ m_edca = [m \in MACs |-> {}]

NextEdca ==
  \/ \E m \in MACs : Construct(m)
  \/ \E b \in Bundles(1) :
        Built(b) /\ Register(1, b, StandardOf(b), b = MacOf(1, StandardOf(b)))
  \/ \E standard \in Registered : Activate(1, standard)
  \/ \E qid \in QueueIds : Send(1, 2, qid)

(* The MACs are constructed, registered on device 1 and activated, and the   *)
(* device sends data                                                         *)
SpecEdca == InitEdca /\ [][NextEdca]_vars

(* Link-loss timeouts of the upper part of the attribute's range *)
LargeLLTValues == {5, LltWrap, LltWrap + 5}

InitLargeLlt ==
  /\ InitCommon
  /\ \E l \in LargeLLTValues : m_llt = [m \in MACs |-> l]

NextLargeLlt ==
  \/ EstablishFastSessionTransferSession(1, 2)
  \/ \E m \in MACs : Deliver(m)
  \/ \E m \in MACs : Acked(m)
  \/ \E m \in MACs : \E a \in Devices \ {DeviceOf(m)} : MacTxOkEvent(m, a)
  \/ \E m \in MACs : \E a \in Devices \ {DeviceOf(m)} : MacRxOkEvent(m, a)
  \/ Expire
  \/ Idle

(* The FST protocol without teardown, configured with a large link-loss      *)
(* timeout                                                                   *)
SpecLargeLlt == InitLargeLlt /\ [][NextLargeLlt]_vars

(* Each device is configured with a link-loss timeout of its own *)
InitOwnLlt ==
  /\ InitCommon
  /\ \E l \in [Devices -> LLTValues] : m_llt = [m \in MACs |-> l[DeviceOf(m)]]

(* The FST protocol without teardown between devices of different LLT *)
SpecOwnLlt == InitOwnLlt /\ [][NextLargeLlt]_vars

(* The kinds of station device 1 can be configured as, and the type of its   *)
(* MAC on each band (RegularWifiMac::SetTypeOfStation)                       *)
Roles == {"client", "ap", "adhoc"}

TypeOf(role, std) ==
  IF std = "80211ad"
  THEN (IF role = "client" THEN "DMG_STA"
        ELSE IF role = "ap" THEN "DMG_AP" ELSE "DMG_ADHOC")
  ELSE (IF role = "client" THEN "STA"
        ELSE IF role = "ap" THEN "AP" ELSE "ADHOC_STA")

MacStates == {"ASSOCIATED", "UNASSOCIATED"}

(* Device 1 is a station of any kind; each of its MACs has a BSS identifier, *)
(* an association state and a set of stations recorded as associated.        *)
InitStations ==
  /\ InitProgram
  /\ m_llt = [m \in MACs |-> 0]
  /\ \E role \in Roles :
     \E bssid \in [Registered -> {0, 2}] :
     \E state \in [Registered -> MacStates] :
     \E assocOk \in [Registered -> {{}, {2}}] :
       assocState = [m \in MACs |->
         IF DeviceOf(m) = 1
         THEN [type |-> TypeOf(role, StandardOf(m)),
               bssid |-> bssid[StandardOf(m)],
               state |-> state[StandardOf(m)],
               assocOk |-> assocOk[StandardOf(m)]]
         ELSE InitAssoc(m)]

NextStations ==
  \E standard \in Registered : \E a \in Peers \ {1} : \E isInitiator \in BOOLEAN :
    ForceBandChanged(1, standard, a, isInitiator)

(* The operator switches the bands of a station of any kind *)
SpecStations == InitStations /\ [][NextStations]_vars

(* The operator's devices are configured without a link-loss timeout *)
InitQueues ==
  /\ InitCommon
  /\ m_llt = [m \in MACs |-> 0]

NextQueues ==
  \/ \E dest \in Peers \ {1} : \E qid \in QueueIds : Send(1, dest, qid)
  \/ \E standard \in Registered : \E a \in Peers \ {1} : \E isInitiator \in BOOLEAN :
        ForceBandChanged(1, standard, a, isInitiator)

(* Device 1 queues traffic while the operator switches bands *)
SpecQueues == InitQueues /\ [][NextQueues]_vars

NextAgreements ==
  \/ \E ac \in AcSet : \E a \in Peers \ {1} : GotAddBaResponse(1, ac, a)
  \/ \E standard \in Registered : \E a \in Peers \ {1} : \E isInitiator \in BOOLEAN :
        ForceBandChanged(1, standard, a, isInitiator)

(* Device 1 negotiates agreements while the operator switches bands *)
SpecAgreements == InitQueues /\ [][NextAgreements]_vars

(* A round-trip run holds at most MaxItems frames and agreements *)
SendItem(d, dest, qid) ==
  counters.frames + counters.agreements < MaxItems /\ Send(d, dest, qid)

AgreeItem(d, ac, a) ==
  counters.frames + counters.agreements < MaxItems /\ GotAddBaResponse(d, ac, a)

NextRoundTrip ==
  \/ \E dest \in Peers \ {1} : \E qid \in QueueIds : SendItem(1, dest, qid)
  \/ \E ac \in AcSet : \E a \in Peers \ {1} : AgreeItem(1, ac, a)
  \/ \E standard \in Registered : \E a \in Peers \ {1} : \E isInitiator \in BOOLEAN :
        ForceBandChanged(1, standard, a, isInitiator)

(* Device 1 holds frames and agreements while the operator switches bands *)
SpecRoundTrip == InitQueues /\ [][NextRoundTrip]_vars

(************************ properties *****************************************)
(* The calls of operation op a handler made, in call order *)
Calls(log, op) == SelectSeq(log, LAMBDA c : c.op = op)

(* The pending countdown events of MAC m for peer a *)
PendingFor(m, a) ==
  {i \in 1..Len(events) : events[i].mac = m /\ events[i].peer = a}

(* The session the last handler worked on, as it is now *)
LastSession == m_fstSessionMap[lastEvent.mac][lastEvent.peer]

(* C1: once a Teardown from P has been handled while P's countdown was      *)
(* armed, the session is INITIAL and no countdown for P is pending.          *)
C1_TeardownCancelsCountdown ==
  (/\ lastEvent.kind = "Receive"
   /\ lastEvent.frame.type = "FST_TEAR_DOWN"
   /\ lastEvent.preRunning)
  => /\ LastSession.CurrentState = "FST_INITIAL_STATE"
     /\ PendingFor(lastEvent.mac, lastEvent.peer) = {}

(* C2: a countdown expiry for P that runs while P's session is not in       *)
(* SETUP_COMPLETION invokes no band switch.                                  *)
C2_StaleExpiryIsNoOp ==
  (/\ lastEvent.kind = "Expire"
   /\ lastEvent.pre.CurrentState # "FST_SETUP_COMPLETION_STATE")
  => Calls(lastEvent.log, "BandChanged") = <<>>

(* C3: when MacTxOk or MacRxOk has refreshed the countdown of P's session   *)
(* and the session is still in SETUP_COMPLETION, a countdown expiry switches *)
(* bands for P only LLT * 32 after the last refresh.                         *)
C3_SwitchAfterLastExchange ==
  (/\ lastEvent.kind = "Expire"
   /\ lastEvent.pre.CurrentState = "FST_SETUP_COMPLETION_STATE"
   /\ lastArmed[lastEvent.mac][lastEvent.peer].by = "refresh"
   /\ Calls(lastEvent.log, "BandChanged") # <<>>)
  => lastEvent.at =
       lastArmed[lastEvent.mac][lastEvent.peer].at + Countdown(lastEvent.pre.LLT)

(* What setup completion does within one event, for the given flag *)
CompletionEffect(isInitiator) ==
  LET s == LastSession
      m == lastEvent.mac
      p == lastEvent.peer
  IN  IF s.LLT = 0
      THEN /\ s.CurrentState = "FST_TRANSITION_DONE_STATE"
           /\ Calls(lastEvent.log, "ChangeBand") =
                <<[op |-> "ChangeBand", mac |-> m, peer |-> p,
                   bandId |-> s.NewBandId, isInitiator |-> isInitiator]>>
           /\ Calls(lastEvent.log, "Schedule") = <<>>
      ELSE /\ s.CurrentState = "FST_SETUP_COMPLETION_STATE"
           /\ Len(Calls(lastEvent.log, "Schedule")) = 1
           /\ LET c == Calls(lastEvent.log, "Schedule")[1]
              IN  /\ c.delay = s.LLT * TimeScale
                  /\ c.mac = m /\ c.peer = p
                  /\ c.bandId = s.NewBandId
                  /\ c.isInitiator = isInitiator
                  /\ s.Event = c.uid
           /\ Calls(lastEvent.log, "ChangeBand") = <<>>
           /\ Calls(lastEvent.log, "BandChanged") = <<>>

(* C4: the initiator's handling of a Setup-Response with status 0: with     *)
(* LLT = 0 the session ends the event in TRANSITION_DONE and the event made  *)
(* exactly one call ChangeBand (P, target band, true); with LLT > 0 the      *)
(* session ends it in SETUP_COMPLETION, the event armed exactly one          *)
(* countdown of LLT * 32 and invoked no band switch.                         *)
C4_InitiatorSetupResponse ==
  (/\ lastEvent.kind = "Receive"
   /\ lastEvent.frame.type = "FST_SETUP_RESPONSE"
   /\ lastEvent.frame.status = 0)
  => CompletionEffect(TRUE)

C4_Witness ==
  /\ lastEvent.kind = "Receive"
  /\ lastEvent.frame.type = "FST_SETUP_RESPONSE"
  /\ lastEvent.frame.status = 0
  /\ lastEvent.pre.IsInitiator
  /\ LastSession.LLT > 0
  /\ LastSession.Event \in Uids(St)

(* C5: the responder's handling of the delivery confirmation of its         *)
(* Setup-Response: the branching of C4 with the flag false.                  *)
C5_ResponderSetupResponseAcked ==
  (/\ lastEvent.kind = "TxOk"
   /\ lastEvent.frame.type = "FST_SETUP_RESPONSE")
  => CompletionEffect(FALSE)

C5_Witness ==
  /\ lastEvent.kind = "TxOk"
  /\ lastEvent.frame.type = "FST_SETUP_RESPONSE"
  /\ ~lastEvent.pre.IsInitiator
  /\ LastSession.LLT = 0
  /\ LastSession.CurrentState = "FST_TRANSITION_DONE_STATE"
  /\ m_active[DeviceOf(lastEvent.mac)].m_standard = "80211n_5GHZ"

(* One handshake was set up, nothing was torn down *)
OneHandshake == counters.setups = 1 /\ counters.teardowns = 0

(* Nothing is queued, in flight or scheduled any more *)
Quiescent ==
  /\ events = <<>>
  /\ NoneInFlight
  /\ \A m \in MACs : \A q \in QueueIds : txQueue[m][q] = <<>>

(* C6: in a run of one handshake without teardown each side invokes the     *)
(* band switch for its peer at most once, and exactly once when the          *)
(* handshake has run to its end; the switch is to the negotiated band, with  *)
(* isInitiator true on the initiator and false on the responder; it is       *)
(* invoked by the setup-completion event when LLT = 0 and by the countdown   *)
(* expiry, LLT * 32 after the countdown was last armed, when LLT > 0.        *)
C6_HandshakeSwitchesOnce ==
  OneHandshake =>
    /\ \A d \in Devices :
         /\ Len(bandChangedLog[d]) <= 1
         /\ Quiescent => Len(bandChangedLog[d]) = 1
         /\ \A i \in 1..Len(bandChangedLog[d]) :
              LET c == bandChangedLog[d][i]
              IN  /\ c.standard = "80211n_5GHZ"
                  /\ c.mac = MacOf(d, "80211ad")
                  /\ c.peer \in Devices \ {d}
                  /\ c.isInitiator = (d \in Initiators)
                  /\ c.at = lastArmed[c.mac][c.peer].at + Countdown(m_llt[c.mac])
    /\ Calls(lastEvent.log, "ChangeBand") # <<>> =>
         IF m_llt[lastEvent.mac] = 0
         THEN /\ lastEvent.kind \in {"Receive", "TxOk"}
              /\ lastEvent.frame.type = "FST_SETUP_RESPONSE"
         ELSE lastEvent.kind = "Expire"

C6_Witness ==
  /\ OneHandshake
  /\ Quiescent
  /\ \A d \in Devices : Len(bandChangedLog[d]) = 1
  /\ \A m \in MACs : m_llt[m] > 0
  /\ now > 0

(* The last forced switch, the MAC it left and the MAC it activated *)
LastSwitch == switchHist[Len(switchHist)]

OldMac(r) == MacOf(r.device, r.from)

NewMac(r) == MacOf(r.device, r.to)

(* What the notification of switch r appended to queue q of the new MAC *)
Notified(r, q) ==
  IF q = "DCA" /\ r.isInitiator
  THEN <<MgtFrame("FST_ACK_REQUEST", r.peer, r.device, 0,
                  m_fstSessionMap[NewMac(r)][r.peer].ID, 0)>>
  ELSE <<>>

(* C7 as stated, for the four access-category queues: after a switch for P  *)
(* to another bundle, the frames for P in each queue of the new bundle are   *)
(* exactly those the old bundle's queue held, in order, and the old          *)
(* bundle's queue holds none for P.                                          *)
C7_Original ==
  (switchHist # <<>> /\ LastSwitch.from # LastSwitch.to) =>
    LET r == LastSwitch
    IN  \A q \in AcSet :
          /\ FramesFor(txQueue[NewMac(r)][q], r.peer) =
               FramesFor(r.preQ[OldMac(r)][q], r.peer)
          /\ FramesFor(txQueue[OldMac(r)][q], r.peer) = <<>>

(* C7: after a switch for P to another bundle, each queue of the new bundle *)
(* holds what it held before, followed by the frames for P of the old        *)
(* bundle's queue in their order (followed, on the non-QoS queue of an       *)
(* initiator, by the Ack-Request of the notification); the old bundle's      *)
(* queue keeps its other frames in their order and none for P.               *)
C7_TransferAppends ==
  (switchHist # <<>> /\ LastSwitch.from # LastSwitch.to) =>
    LET r == LastSwitch
    IN  \A q \in QueueIds :
          /\ txQueue[NewMac(r)][q] =
               r.preQ[NewMac(r)][q] \o FramesFor(r.preQ[OldMac(r)][q], r.peer)
                 \o Notified(r, q)
          /\ txQueue[OldMac(r)][q] = FramesNotFor(r.preQ[OldMac(r)][q], r.peer)

C7_Witness ==
  /\ switchHist # <<>>
  /\ LastSwitch.from # LastSwitch.to
  /\ \E q \in AcSet :
       /\ Len(FramesFor(LastSwitch.preQ[OldMac(LastSwitch)][q], LastSwitch.peer)) = 2
       /\ FramesFor(LastSwitch.preQ[NewMac(LastSwitch)][q], LastSwitch.peer) # <<>>
       /\ Len(txQueue[NewMac(LastSwitch)][q]) = 3

(* C8: a switch for P leaves the frames for every other peer Q in the same  *)
(* bundle, the same queue and the same order.                                *)
C8_OtherPeersUnaffected ==
  switchHist # <<>> =>
    \A m \in MACs : \A q \in QueueIds : \A a \in Peers \ {LastSwitch.peer} :
      FramesFor(txQueue[m][q], a) = FramesFor(LastSwitch.preQ[m][q], a)

C8_Witness ==
  /\ switchHist # <<>>
  /\ LastSwitch.from # LastSwitch.to
  /\ \E q \in QueueIds :
       LET old == LastSwitch.preQ[OldMac(LastSwitch)][q]
       IN  /\ Len(old) = 3
           /\ old[1].to = LastSwitch.peer
           /\ old[2].to # LastSwitch.peer
           /\ old[3].to = LastSwitch.peer
           /\ Len(txQueue[OldMac(LastSwitch)][q]) = 1

(* C9: an agreement P has on a queue of the old bundle is, after the        *)
(* switch, the agreement P has on the new bundle's queue of that access      *)
(* category, whatever agreement was there before.                            *)
C9_AgreementCopied ==
  switchHist # <<>> =>
    LET r == LastSwitch
    IN  \A ac \in AcSet :
          r.preAgr[OldMac(r)][ac][r.peer].present =>
            agreements[NewMac(r)][ac][r.peer] = r.preAgr[OldMac(r)][ac][r.peer]

C9_Witness ==
  /\ switchHist # <<>>
  /\ LastSwitch.from # LastSwitch.to
  /\ \E ac \in AcSet :
       LET was == LastSwitch.preAgr[NewMac(LastSwitch)][ac][LastSwitch.peer]
           old == LastSwitch.preAgr[OldMac(LastSwitch)][ac][LastSwitch.peer]
       IN  /\ was.present /\ old.present /\ was # old
           /\ agreements[NewMac(LastSwitch)][ac][LastSwitch.peer] = old

(* Two consecutive switches for one peer, from a band to another and back *)
RoundTrip ==
  /\ Len(switchHist) = 2
  /\ switchHist[1].peer = switchHist[2].peer
  /\ switchHist[1].from # switchHist[1].to
  /\ switchHist[2].from = switchHist[1].to
  /\ switchHist[2].to = switchHist[1].from

(* Band A holds for P the frames, per access category and in order, and the *)
(* agreements it held before the round trip                                  *)
Restored ==
  LET r == switchHist[1]
  IN  \A ac \in AcSet :
        /\ FramesFor(txQueue[OldMac(r)][ac], r.peer) =
             FramesFor(r.preQ[OldMac(r)][ac], r.peer)
        /\ agreements[OldMac(r)][ac][r.peer] = r.preAgr[OldMac(r)][ac][r.peer]

(* Band B held neither a frame nor an agreement for P before the round trip *)
OtherBandClear ==
  LET r == switchHist[1]
  IN  \A ac \in AcSet :
        /\ FramesFor(r.preQ[NewMac(r)][ac], r.peer) = <<>>
        /\ ~r.preAgr[NewMac(r)][ac][r.peer].present

(* C10 as stated: a round trip A -> B -> A for P with nothing enqueued in   *)
(* between restores P's frames and agreements on A.                          *)
C10_Original == RoundTrip => Restored

(* C10: a round trip A -> B -> A for P with nothing enqueued in between     *)
(* restores P's frames and agreements on A when B held neither a frame nor   *)
(* an agreement for P before it.                                             *)
C10_RoundTripRestores == (RoundTrip /\ OtherBandClear) => Restored

C10_Witness ==
  /\ RoundTrip
  /\ OtherBandClear
  /\ \E ac \in AcSet :
       FramesFor(switchHist[1].preQ[OldMac(switchHist[1])][ac], switchHist[1].peer) # <<>>
  /\ \E ac \in AcSet :
       switchHist[1].preAgr[OldMac(switchHist[1])][ac][switchHist[1].peer].present
(* The position of a session state on the path INITIAL, SETUP_COMPLETION,    *)
(* TRANSITION_DONE, TRANSITION_CONFIRMED; no session counts as INITIAL.      *)
StateRank(state) ==
  IF state = "FST_SETUP_COMPLETION_STATE" THEN 1
  ELSE IF state = "FST_TRANSITION_DONE_STATE" THEN 2
  ELSE IF state = "FST_TRANSITION_CONFIRMED_STATE" THEN 3
  ELSE 0

(* C11: an event leaves the session it worked on in INITIAL or in a state    *)
(* that is not behind the state it found: no event takes a session from      *)
(* TRANSITION_DONE or TRANSITION_CONFIRMED back to an earlier state of the   *)
(* path other than INITIAL.                                                  *)
C11_StateOnlyAdvances ==
  lastEvent.kind # "Init" =>
    \/ LastSession.CurrentState = "FST_INITIAL_STATE"
    \/ StateRank(LastSession.CurrentState) >= StateRank(lastEvent.pre.CurrentState)

(* C12: a session has at most one pending countdown event: for every MAC     *)
(* and peer at most one scheduled ChangeBand is pending.                     *)
C12_OnePendingCountdown ==
  \A m \in MACs : \A a \in Peers : Cardinality(PendingFor(m, a)) <= 1

(* The last event replaced the session with its peer: SetupFSTSession was    *)
(* called or a Setup-Request was received.                                   *)
SessionReplaced ==
  \/ lastEvent.kind = "SetupFSTSession"
  \/ /\ lastEvent.kind = "Receive"
     /\ lastEvent.frame.type = "FST_SETUP_REQUEST"

(* C13: when a session replaces a former session with the same peer whose   *)
(* countdown was pending, that countdown is cancelled: no countdown for the  *)
(* peer is pending once the replacing handler has returned.                  *)
C13_ReplacementCancelsCountdown ==
  (SessionReplaced /\ lastEvent.preRunning)
  => PendingFor(lastEvent.mac, lastEvent.peer) = {}

(* C14: once a Setup-Response with a nonzero status code has been handled,   *)
(* the session with its sender is INITIAL, no countdown for the sender is    *)
(* pending and the handler invoked no band switch, whatever the session's    *)
(* state was before.                                                         *)
C14_RejectedSetupResets ==
  (/\ lastEvent.kind = "Receive"
   /\ lastEvent.frame.type = "FST_SETUP_RESPONSE"
   /\ lastEvent.frame.status # 0)
  => /\ LastSession.CurrentState = "FST_INITIAL_STATE"
     /\ PendingFor(lastEvent.mac, lastEvent.peer) = {}
     /\ Calls(lastEvent.log, "ChangeBand") = <<>>

(* C15: once a Setup-Request from P has been handled, the session with P is  *)
(* INITIAL with IsInitiator false and the id, new band and LLT of the        *)
(* request; the handler queued exactly one frame, a Setup-Response to P with *)
(* status 0 and the request's dialog token; no countdown for P is pending    *)
(* and the handler invoked no band switch.                                   *)
C15_SetupRequestHandled ==
  (/\ lastEvent.kind = "Receive"
   /\ lastEvent.frame.type = "FST_SETUP_REQUEST")
  => /\ LastSession.CurrentState = "FST_INITIAL_STATE"
     /\ ~LastSession.IsInitiator
     /\ LastSession.ID = lastEvent.frame.fstsID
     /\ LastSession.NewBandId = lastEvent.frame.newBand
     /\ LastSession.LLT = lastEvent.frame.llt
     /\ Len(Calls(lastEvent.log, "Queue")) = 1
     /\ LET c == Calls(lastEvent.log, "Queue")[1]
        IN  /\ c.mac = lastEvent.mac
            /\ c.frame.type = "FST_SETUP_RESPONSE"
            /\ c.frame.to = lastEvent.peer
            /\ c.frame.status = 0
            /\ c.frame.token = lastEvent.frame.token
     /\ Calls(lastEvent.log, "ChangeBand") = <<>>
     /\ PendingFor(lastEvent.mac, lastEvent.peer) = {}

(* The notification of a band switch made within the last event: the MAC    *)
(* that is active after the event was notified exactly once, with the peer   *)
(* and the flag of the switch, and queued one Ack-Request to the peer when   *)
(* the flag is true and nothing when it is false.                            *)
NotifiedOnce(b) ==
  LET newMac == m_active[b.device].m_mac
      queued == Calls(lastEvent.log, "Queue")
  IN  /\ Calls(lastEvent.log, "NotifyBandChanged") =
           <<[op |-> "NotifyBandChanged", mac |-> newMac, peer |-> b.peer,
              isInitiator |-> b.isInitiator]>>
      /\ IF b.isInitiator
         THEN /\ Len(queued) = 1
              /\ queued[1].mac = newMac
              /\ queued[1].frame.type = "FST_ACK_REQUEST"
              /\ queued[1].frame.to = b.peer
         ELSE queued = <<>>

(* C16: a band switch the FST state machine invokes for its session with P   *)
(* notifies the newly active MAC exactly once with P and the same flag; with *)
(* the flag true that MAC queues exactly one Ack-Request to P, which carries *)
(* the id of the session with P; with the flag false it queues nothing.      *)
C16_NotifyCarriesSessionId ==
  \A i \in 1..Len(Calls(lastEvent.log, "BandChanged")) :
    LET b == Calls(lastEvent.log, "BandChanged")[i]
    IN  /\ NotifiedOnce(b)
        /\ b.isInitiator =>
             Calls(lastEvent.log, "Queue")[1].frame.fstsID = LastSession.ID

(* C17: once an Ack-Request from P has been handled, the handler has queued  *)
(* exactly one frame, an Ack-Response to P with the dialog token and the     *)
(* session id of the request, and the session with P is                      *)
(* TRANSITION_CONFIRMED.                                                     *)
C17_AckRequestConfirms ==
  (/\ lastEvent.kind = "Receive"
   /\ lastEvent.frame.type = "FST_ACK_REQUEST")
  => /\ Len(Calls(lastEvent.log, "Queue")) = 1
     /\ LET c == Calls(lastEvent.log, "Queue")[1]
        IN  /\ c.mac = lastEvent.mac
            /\ c.frame.type = "FST_ACK_RESPONSE"
            /\ c.frame.to = lastEvent.peer
            /\ c.frame.token = lastEvent.frame.token
            /\ c.frame.fstsID = lastEvent.frame.fstsID
     /\ LastSession.CurrentState = "FST_TRANSITION_CONFIRMED_STATE"

(* C18: an Ack-Response received, or the delivery of an Ack-Response         *)
(* confirmed, while the session with the peer is INITIAL or does not exist   *)
(* does not leave the session in TRANSITION_CONFIRMED.                       *)
C18_ConfirmedOnlyAfterSetup ==
  (/\ lastEvent.kind \in {"Receive", "TxOk"}
   /\ lastEvent.frame.type = "FST_ACK_RESPONSE"
   /\ lastEvent.pre.CurrentState \in {"absent", "FST_INITIAL_STATE"})
  => LastSession.CurrentState # "FST_TRANSITION_CONFIRMED_STATE"

(* C19: an Ack-Request, Ack-Response or Teardown from P whose session id is  *)
(* not the id of the receiver's session with P leaves that session as it was *)
(* and makes the receiver queue no frame.                                    *)
C19_MismatchedIdIgnored ==
  (/\ lastEvent.kind = "Receive"
   /\ lastEvent.frame.type \in {"FST_ACK_REQUEST", "FST_ACK_RESPONSE", "FST_TEAR_DOWN"}
   /\ lastEvent.pre # NoSession
   /\ lastEvent.frame.fstsID # lastEvent.pre.ID)
  => /\ LastSession = lastEvent.pre
     /\ Calls(lastEvent.log, "Queue") = <<>>

(* The queues of MAC m that hold frame f *)
QueuesHolding(m, f) ==
  {q \in QueueIds : \E i \in 1..Len(txQueue[m][q]) : txQueue[m][q][i] = f}

(* C20: a frame passed to Send is enqueued on the MAC of the active bundle  *)
(* and on no other MAC of the device; the active bundle is the one of the    *)
(* band the device was last switched to, so every Send after a switch to a   *)
(* band enqueues on that band's MAC until the next switch.                   *)
C20_SendUsesActiveMac ==
  /\ lastEvent.kind = "Send" =>
       LET d == lastEvent.frame.from
           active == MacOf(d, m_active[d].m_standard)
       IN  /\ Calls(lastEvent.log, "Enqueue") =
                <<[op |-> "Enqueue", mac |-> active, frame |-> lastEvent.frame]>>
           /\ Cardinality(QueuesHolding(active, lastEvent.frame)) = 1
           /\ \A m \in MACs \ {active} : QueuesHolding(m, lastEvent.frame) = {}
  /\ (lastEvent.kind = "BandChanged" /\ switchHist # <<>> /\ ~crashed) =>
       /\ m_active[LastSwitch.device].m_standard = LastSwitch.to
       /\ m_active[LastSwitch.device].m_mac = NewMac(LastSwitch)

C20_Witness ==
  /\ lastEvent.kind = "Send"
  /\ counters.switches >= 2
  /\ m_active[1].m_standard = "80211n_5GHZ"
  /\ QueuesHolding(MacOf(1, "80211n_5GHZ"), lastEvent.frame) # {}
  /\ \E q \in QueueIds : \E i \in 1..Len(txQueue[MacOf(1, "80211ad")][q]) :
       txQueue[MacOf(1, "80211ad")][q][i].type = "DATA"

(* The bundle of standard std in the table of device d is the active one *)
ActiveIs(d, std) ==
  /\ m_active[d].m_standard = std
  /\ m_active[d].m_mac = m_list[d][std].Mac
  /\ m_active[d].m_phy = m_list[d][std].Phy
  /\ m_active[d].m_stationManager = m_list[d][std].StationManager

(* C21: once device 1 has activated a standard, its active MAC, PHY,         *)
(* station manager and standard are those of one entry of its technology     *)
(* table, and AddNewWifiTechnology was called for that entry's standard.     *)
C21_OneRegisteredBundleActive ==
  counters.switches >= 1 => \E std \in registered[1] : ActiveIs(1, std)

(* What the last call on the device found, and the call itself *)
Found == lastEvent.log[1]

DeviceCall == lastEvent.log[Len(lastEvent.log)]

(* C22: a call of AddNewWifiTechnology for a standard that is already        *)
(* registered leaves the entry of that standard as it was.                    *)
C22_ReRegistrationRejected ==
  (/\ lastEvent.kind = "AddNewWifiTechnology"
   /\ DeviceCall.standard \in Found.reg)
  => m_list[DeviceCall.device][DeviceCall.standard]
       = Found.list[DeviceCall.standard]

(* C23: SwitchTechnology for a registered standard makes the bundle of that  *)
(* standard the active one; for a standard that is not registered it leaves  *)
(* the active MAC, PHY, station manager and standard as they were.           *)
C23_ActivationOfRegisteredOnly ==
  lastEvent.kind = "SwitchTechnology" =>
    IF DeviceCall.standard \in Found.reg
    THEN ActiveIs(DeviceCall.device, DeviceCall.standard)
    ELSE m_active[DeviceCall.device] = Found.dev

(* The standards that have an entry in a technology table *)
Keys(list) == {std \in Standards : list[std].present}

(* C29: GetTechnologyMac, GetTechnologyPhy and SwitchTechnology for a        *)
(* standard that is not registered leave the set of standards that have an   *)
(* entry in the technology table and every registered entry as they were.    *)
C29_LookupAddsNoEntry ==
  (/\ lastEvent.kind \in {"GetTechnologyMac", "GetTechnologyPhy", "SwitchTechnology"}
   /\ DeviceCall.standard \notin Found.reg)
  => /\ Keys(m_list[DeviceCall.device]) = Keys(Found.list)
     /\ \A std \in Found.reg : m_list[DeviceCall.device][std] = Found.list[std]

(* C30: SwitchTechnology, called in any reachable state for any standard,    *)
(* leaves every entry the technology table holds (the previously active one  *)
(* among them) with the same PHY, MAC, station manager and operational flag, *)
(* and leaves all queues, agreements, sessions and association states as     *)
(* they are; for a registered standard the table as a whole is unchanged.    *)
C30_ActivationKeepsBundles ==
  \A std \in Standards :
    LET st1 == SwitchTechnology(St, 1, std)
    IN  /\ \A s \in Keys(m_list[1]) : st1.list[1][s] = m_list[1][s]
        /\ std \in registered[1] => st1.list = m_list
        /\ st1.q = txQueue
        /\ st1.agr = agreements
        /\ st1.sess = m_fstSessionMap
        /\ st1.assoc = assocState

C30_Witness ==
  /\ lastEvent.kind = "BandChanged"
  /\ switchHist # <<>>
  /\ LastSwitch.from # LastSwitch.to
  /\ m_active[1].m_standard = LastSwitch.to
  /\ m_list[1][LastSwitch.from] = Technology(1, LastSwitch.from)
  /\ \E q \in QueueIds : txQueue[OldMac(LastSwitch)][q] # <<>>
  /\ \E ac \in AcSet : \E a \in Peers : agreements[OldMac(LastSwitch)][ac][a].present

(* C24: once a Teardown from P has been handled, handling the same Teardown  *)
(* again changes nothing; and when the session with P was INITIAL before,    *)
(* the handler left the session as it was and made no call that touches a    *)
(* timer, a queue or the active band.                                        *)
C24_TeardownIdempotent ==
  (/\ lastEvent.kind = "Receive"
   /\ lastEvent.frame.type = "FST_TEAR_DOWN")
  => /\ Receive(St, lastEvent.mac, lastEvent.frame) = St
     /\ lastEvent.pre.CurrentState = "FST_INITIAL_STATE" =>
          /\ LastSession = lastEvent.pre
          /\ lastEvent.log = <<>>

C24_Witness ==
  /\ lastEvent.kind = "Receive"
  /\ lastEvent.frame.type = "FST_TEAR_DOWN"
  /\ lastEvent.pre.CurrentState = "FST_INITIAL_STATE"
  /\ lastEvent.pre.ID >= 1
  /\ LastSession.CurrentState = "FST_INITIAL_STATE"

(* C25: the k-th SetupFSTSession call on a MAC stores a session with id k    *)
(* (the first call 1, every call one more than the call before) and queues   *)
(* exactly one frame, a Setup-Request that carries the same id.              *)
C25_SessionIdsIncrease ==
  lastEvent.kind = "SetupFSTSession" =>
    /\ LastSession.ID = counters.setups
    /\ m_fstId[lastEvent.mac] = counters.setups
    /\ lastEvent.pre # NoSession => LastSession.ID = lastEvent.pre.ID + 1
    /\ Len(Calls(lastEvent.log, "Queue")) = 1
    /\ LET c == Calls(lastEvent.log, "Queue")[1]
       IN  /\ c.frame.type = "FST_SETUP_REQUEST"
           /\ c.frame.to = lastEvent.peer
           /\ c.frame.fstsID = LastSession.ID

C25_Witness ==
  /\ lastEvent.kind = "SetupFSTSession"
  /\ lastEvent.pre.ID = 1
  /\ LastSession.ID = 2
  /\ LastSession.IsInitiator

(* The standard ChangeBand maps a band id to *)
BandStandard(bandId) ==
  IF bandId = "Band_60GHz" THEN "80211ad"
  ELSE IF bandId = "Band_4_9GHz" THEN "80211n_5GHZ"
  ELSE IF bandId = "Band_2_4GHz" THEN "80211n_2_4GHZ"
  ELSE "none"

(* C26: a band switch requested for a band id that ChangeBand maps to no    *)
(* technology, or to a standard without registered bundle, ends the run with *)
(* a fatal error; and no running device has an empty bundle (null MAC)       *)
(* active.                                                                   *)
C26_UnknownBandIsFatal ==
  /\ ~crashed => \A d \in Devices : m_active[d].m_mac # NullMac
  /\ \A i \in 1..Len(Calls(lastEvent.log, "ChangeBand")) :
       LET c == Calls(lastEvent.log, "ChangeBand")[i]
       IN  BandStandard(c.bandId) \notin registered[DeviceOf(c.mac)] => crashed

(* C28: a forced switch to the standard that is already active leaves every *)
(* queue of the active MAC with the same frames in the same order (the       *)
(* non-QoS queue followed by the Ack-Request the notification queues when    *)
(* isInitiator is true) and leaves the agreements as they were.              *)
C28_SameBandChangesNothing ==
  (/\ lastEvent.kind = "BandChanged"
   /\ switchHist # <<>>
   /\ LastSwitch.from = LastSwitch.to)
  => /\ \A q \in QueueIds :
          txQueue[NewMac(LastSwitch)][q]
            = LastSwitch.preQ[NewMac(LastSwitch)][q] \o Notified(LastSwitch, q)
     /\ agreements = LastSwitch.preAgr

(* Both devices are active on 5 GHz and the session of each active MAC with  *)
(* the other device is TRANSITION_CONFIRMED.                                 *)
BothConfirmed ==
  \A d \in Devices :
    /\ m_active[d].m_standard = BandStandard("Band_4_9GHz")
    /\ \A a \in Devices \ {d} :
         m_fstSessionMap[m_active[d].m_mac][a].CurrentState
           = "FST_TRANSITION_CONFIRMED_STATE"

C31_AgreementsStayOnOldBundle ==
  switchHist # <<>> =>
    LET r == LastSwitch
    IN  \A ac \in AcSet : \A a \in Peers :
          r.preAgr[OldMac(r)][ac][a].present =>
            agreements[OldMac(r)][ac][a] = r.preAgr[OldMac(r)][ac][a]

C31_Witness ==
  /\ switchHist # <<>>
  /\ LastSwitch.from # LastSwitch.to
  /\ \E ac \in AcSet : \E a \in Peers \ {LastSwitch.peer} :
       /\ LastSwitch.preAgr[OldMac(LastSwitch)][ac][LastSwitch.peer].present
       /\ LastSwitch.preAgr[OldMac(LastSwitch)][ac][a].present
       /\ agreements[NewMac(LastSwitch)][ac][LastSwitch.peer] =
            agreements[OldMac(LastSwitch)][ac][LastSwitch.peer]
       /\ ~agreements[NewMac(LastSwitch)][ac][a].present

(* C32: in a band switch of device 1 for peer P, when the new bundle's MAC   *)
(* is a client (STA or DMG_STA) its BSS identifier and association state     *)
(* after the switch are those of the old bundle's MAC before the switch;     *)
(* when it is an access point (AP or DMG_AP) P is recorded as associated in  *)
(* the new bundle's station manager; for any other type of station the       *)
(* association state of no MAC changes.                                      *)
C32_AssociationCarriedOver ==
  [][counters'.switches = counters.switches + 1 =>
       LET oldMac == m_active[1].m_mac
           newMac == m_active'[1].m_mac
           type == assocState[newMac].type
       IN  IF type \in {"STA", "DMG_STA"}
           THEN /\ assocState'[newMac].bssid = assocState[oldMac].bssid
                /\ assocState'[newMac].state = assocState[oldMac].state
           ELSE IF type \in {"AP", "DMG_AP"}
           THEN lastEvent'.peer \in assocState'[m_active'[1].m_stationManager].assocOk
           ELSE assocState' = assocState]_vars

C32_Witness ==
  /\ switchHist # <<>>
  /\ LastSwitch.from # LastSwitch.to
  /\ assocState[NewMac(LastSwitch)].type = "STA"
  /\ assocState[NewMac(LastSwitch)].state = "ASSOCIATED"
  /\ assocState[NewMac(LastSwitch)].bssid = assocState[OldMac(LastSwitch)].bssid
  /\ assocState[NewMac(LastSwitch)].bssid # 0

(* The operations of one BandChanged call, in the order of the calls *)
BandChangedSteps ==
  <<"BandChanged", "SwitchTechnology",
    "Transfer", "Transfer", "Transfer", "Transfer", "Transfer",
    "CopyAgreement", "CopyAgreement", "CopyAgreement", "CopyAgreement",
    "CopyAssociationState", "NotifyBandChanged">>

(* C33: within one BandChanged call the steps occur in a fixed order: the    *)
(* activation of the target bundle, then the frame transfers (the non-QoS    *)
(* queue, then voice, video, best effort, background), then the agreement    *)
(* copies in the order voice, video, best effort, background, then the       *)
(* carry-over of the association state, then the notification; the           *)
(* Ack-Request of an initiator is queued after all of these, behind every    *)
(* migrated frame for the peer.                                              *)
C33_BandChangedOrder ==
  lastEvent.kind = "BandChanged" =>
    LET log == lastEvent.log
        n == Len(BandChangedSteps)
        r == LastSwitch
    IN  /\ Len(log) >= n
        /\ \A i \in 1..n : log[i].op = BandChangedSteps[i]
        /\ log[3].queue = "DCA"
        /\ \A k \in 1..4 : log[3 + k].queue = ACs[k] /\ log[7 + k].queue = ACs[k]
        /\ \A i \in 3..11 : log[i].from = OldMac(r) /\ log[i].to = NewMac(r)
        /\ \A i \in (n + 1)..Len(log) : log[i].op \in {"InsertDefault", "Queue"}
        /\ r.isInitiator =>
             /\ log[Len(log)].op = "Queue"
             /\ log[Len(log)].mac = NewMac(r)
             /\ log[Len(log)].frame.type = "FST_ACK_REQUEST"
             /\ LET q == txQueue[NewMac(r)]["DCA"]
                IN  /\ q[Len(q)] = log[Len(log)].frame
                    /\ r.from # r.to =>
                         q = r.preQ[NewMac(r)]["DCA"]
                               \o FramesFor(r.preQ[OldMac(r)]["DCA"], r.peer)
                               \o <<log[Len(log)].frame>>
        /\ ~r.isInitiator => Len(log) = n

C33_Witness ==
  /\ lastEvent.kind = "BandChanged"
  /\ LastSwitch.isInitiator
  /\ LastSwitch.from # LastSwitch.to
  /\ Len(FramesFor(LastSwitch.preQ[OldMac(LastSwitch)]["DCA"], LastSwitch.peer)) = 2
  /\ Len(txQueue[NewMac(LastSwitch)]["DCA"]) = 3
  /\ txQueue[NewMac(LastSwitch)]["DCA"][3].type = "FST_ACK_REQUEST"

(* C34: every countdown armed, on setup completion and on a refresh, has the *)
(* duration LLT * 32 of the session's LLT: the duration is a multiple of 32  *)
(* and its 32nd part is the LLT, also for LLT >= 2^27.                       *)
C34_CountdownIsLltTimes32 ==
  \A i \in 1..Len(lastEvent.log) :
    LET c == lastEvent.log[i]
    IN  c.op = "Schedule" =>
          /\ c.delay % TimeScale = 0
          /\ c.delay \div TimeScale = m_fstSessionMap[c.mac][c.peer].LLT

(* An initiator's session that no Setup-Response has completed since the     *)
(* SetupFSTSession call that created it (in a run without teardown)          *)
Awaiting(session) ==
  /\ session.IsInitiator
  /\ session.CurrentState = "FST_INITIAL_STATE"

(* What a SetupFSTSession call on MAC m for peer a leaves behind *)
SetupCallEffect(m, a) ==
  /\ m_fstSessionMap[m][a] =
       [ID |-> m_fstId[m], CurrentState |-> "FST_INITIAL_STATE",
        IsInitiator |-> TRUE, NewBandId |-> "Band_4_9GHz", LLT |-> m_llt[m],
        Event |-> 0]
  /\ Calls(lastEvent.log, "Queue") =
       <<[op |-> "Queue", mac |-> m,
          frame |-> [SetupRequestFrame(a, DeviceOf(m), m_fstId[m], m_llt[m])
                       EXCEPT !.newBand = m_fstSessionMap[m][a].NewBandId]]>>
  /\ Calls(lastEvent.log, "Schedule") = <<>>
  /\ Calls(lastEvent.log, "BandChanged") = <<>>

(* What holds of MAC m and peer a while the session created by               *)
(* SetupFSTSession waits for the Setup-Response                              *)
StaysInitial(m, a) ==
  /\ PendingFor(m, a) = {}
  /\ (lastEvent.kind # "SetupFSTSession" /\ lastEvent.mac = m /\ lastEvent.peer = a) =>
       /\ lastEvent.pre = m_fstSessionMap[m][a]
       /\ Calls(lastEvent.log, "BandChanged") = <<>>
       /\ Calls(lastEvent.log, "Schedule") = <<>>
       /\ \A i \in 1..Len(lastEvent.log) :
            lastEvent.log[i].op = "Queue" =>
              lastEvent.log[i].frame.type # "FST_SETUP_REQUEST"

(* C35: SetupFSTSession (P) creates P's session in INITIAL as initiator with *)
(* the MAC's LLT and queues exactly one Setup-Request carrying the target    *)
(* band, that LLT and the session id; as long as no Setup-Response from P    *)
(* is received the session stays as it is, no countdown for P is pending, no *)
(* band is switched for P and no Setup-Request is sent again.                *)
C35_RequestLeavesSessionInitial ==
  /\ lastEvent.kind = "SetupFSTSession" =>
       SetupCallEffect(lastEvent.mac, lastEvent.peer)
  /\ \A m \in MACs : \A a \in Devices \ {DeviceOf(m)} :
       Awaiting(m_fstSessionMap[m][a]) => StaysInitial(m, a)

(* The session an initiator's MAC holds for the peer and the session the     *)
(* peer's MAC of the same band holds for the initiator, when the latter was  *)
(* created from the Setup-Request of the former                              *)
Paired(m, r) ==
  /\ m_fstSessionMap[m][DeviceOf(r)].IsInitiator
  /\ m_fstSessionMap[r][DeviceOf(m)].CurrentState # "absent"
  /\ ~m_fstSessionMap[r][DeviceOf(m)].IsInitiator
  /\ m_fstSessionMap[r][DeviceOf(m)].ID = m_fstSessionMap[m][DeviceOf(r)].ID

(* C36: whenever the responder holds a session created from a Setup-Request  *)
(* of the initiator's current session, the two sessions have the same id,    *)
(* target band and LLT; every countdown a side arms has the length of its    *)
(* session's LLT and is for its session's target band, so both sides arm     *)
(* countdowns of the same length and switch to the same band.                *)
C36_SessionsAgree ==
  /\ \A m \in MACs : \A r \in MACs :
       (DeviceOf(m) # DeviceOf(r) /\ StandardOf(m) = StandardOf(r) /\ Paired(m, r)) =>
         LET i == m_fstSessionMap[m][DeviceOf(r)]
             s == m_fstSessionMap[r][DeviceOf(m)]
         IN  /\ s.ID = i.ID
             /\ s.NewBandId = i.NewBandId
             /\ s.LLT = i.LLT
  /\ \A k \in 1..Len(lastEvent.log) :
       LET c == lastEvent.log[k]
       IN  /\ c.op = "Schedule" =>
                /\ c.delay = Countdown(m_fstSessionMap[c.mac][c.peer].LLT)
                /\ c.bandId = m_fstSessionMap[c.mac][c.peer].NewBandId
           /\ c.op = "ChangeBand" /\ lastEvent.kind # "Expire" =>
                c.bandId = m_fstSessionMap[c.mac][c.peer].NewBandId

C36_Witness ==
  /\ Paired(MacOf(1, "80211ad"), MacOf(2, "80211ad"))
  /\ m_llt[MacOf(1, "80211ad")] > m_llt[MacOf(2, "80211ad")]
  /\ m_fstSessionMap[MacOf(2, "80211ad")][1].LLT = m_llt[MacOf(1, "80211ad")]
  /\ m_fstSessionMap[MacOf(2, "80211ad")][1].ID = 2
  /\ PendingFor(MacOf(1, "80211ad"), 2) # {}
  /\ PendingFor(MacOf(2, "80211ad"), 1) # {}

(* The band ids a ChangeBand call can be made with *)
BandIds == {"Band_60GHz", "Band_4_9GHz", "Band_2_4GHz", "Band_TVWS"}

(* ChangeBand, called in the present state by any MAC for any peer, band and *)
(* flag, leaves every session that exists as it is                           *)
ChangeBandKeepsSessions ==
  \A m \in MACs : \A a \in Devices \ {DeviceOf(m)} :
    \A b \in BandIds : \A i \in BOOLEAN :
      LET st2 == ChangeBand(St, m, a, b, i)
      IN  \A x \in MACs : \A y \in Peers :
            m_fstSessionMap[x][y] # NoSession =>
              st2.sess[x][y] = m_fstSessionMap[x][y]

(* TRANSITION_DONE is entered only in the LLT = 0 branch of setup completion *)
DoneOnlyWithoutLlt ==
  /\ \A x \in MACs : \A y \in Peers :
       m_fstSessionMap[x][y].CurrentState = "FST_TRANSITION_DONE_STATE" =>
         m_fstSessionMap[x][y].LLT = 0
  /\ (/\ lastEvent.mac # NullMac
      /\ LastSession.CurrentState = "FST_TRANSITION_DONE_STATE"
      /\ lastEvent.pre.CurrentState # "FST_TRANSITION_DONE_STATE") =>
       /\ lastEvent.kind \in {"Receive", "TxOk"}
       /\ lastEvent.frame.type = "FST_SETUP_RESPONSE"

(* C37: ChangeBand modifies no session: TRANSITION_DONE is entered only in   *)
(* the LLT = 0 branch of setup completion, and the session of a peer whose   *)
(* band switch was triggered by the expiry of the countdown is in            *)
(* SETUP_COMPLETION after the switch, as the expiry found it.                *)
C37_ExpiryLeavesSetupCompletion ==
  /\ ChangeBandKeepsSessions
  /\ DoneOnlyWithoutLlt
  /\ (lastEvent.kind = "Expire" /\ Calls(lastEvent.log, "BandChanged") # <<>>) =>
       /\ LastSession = lastEvent.pre
       /\ LastSession.CurrentState = "FST_SETUP_COMPLETION_STATE"

(* The session of MAC m for address a is in SETUP_COMPLETION and the         *)
(* countdown its handle names is running                                     *)
Refreshable(m, a) ==
  /\ m_fstSessionMap[m][a] # NoSession
  /\ m_fstSessionMap[m][a].CurrentState = "FST_SETUP_COMPLETION_STATE"
  /\ m_fstSessionMap[m][a].Event \in Uids(St)

(* What a refresh of the countdown of (m, a) leaves in the state st2: the    *)
(* countdown the handle named is replaced by a new one, for the same MAC,    *)
(* peer, band and flag; every other session and pending event is as before  *)
RefreshedOnly(st2, m, a) ==
  LET old == m_fstSessionMap[m][a]
      kept == SelectSeq(events, LAMBDA e : e.uid # old.Event)
  IN  /\ st2.sess = [m_fstSessionMap EXCEPT ![m][a].Event = st2.sess[m][a].Event]
      /\ Len(st2.ev) = Len(kept) + 1
      /\ SubSeq(st2.ev, 1, Len(kept)) = kept
      /\ LET e == st2.ev[Len(st2.ev)]
         IN  /\ e.uid = st2.sess[m][a].Event
             /\ e.mac = m /\ e.peer = a
             /\ e.bandId = old.NewBandId
             /\ e.isInitiator = old.IsInitiator
      /\ [st2 EXCEPT !.sess = St.sess, !.ev = St.ev, !.log = St.log] = St

(* C38: MacTxOk and MacRxOk for address A change nothing unless a session    *)
(* for A exists, is in SETUP_COMPLETION and has its countdown running: they  *)
(* create no session entry and arm no countdown for a session that has none  *)
(* pending; when they do refresh, the session and the countdowns of every    *)
(* other peer and MAC are as before.                                         *)
C38_RefreshOnlyWhenRunning ==
  \A m \in MACs : \A a \in Peers :
    /\ ~Refreshable(m, a) => MacTxOk(St, m, a) = St /\ MacRxOk(St, m, a) = St
    /\ Refreshable(m, a) =>
         /\ RefreshedOnly(MacTxOk(St, m, a), m, a)
         /\ RefreshedOnly(MacRxOk(St, m, a), m, a)

C38_Witness ==
  /\ lastEvent.kind = "MacTxOk"
  /\ Refreshable(lastEvent.mac, lastEvent.peer)
  /\ \E m \in MACs :
       /\ m # lastEvent.mac
       /\ m_fstSessionMap[m][DeviceOf(lastEvent.mac)].CurrentState
            = "FST_SETUP_COMPLETION_STATE"
       /\ ~Refreshable(m, DeviceOf(lastEvent.mac))
  /\ \E m \in MACs : \E a \in Peers : m_fstSessionMap[m][a] = NoSession

(* The band switch that starts at record i of a handler's call log runs to   *)
(* its end there: its steps follow one another, all for the same pair of     *)
(* MACs, and the handler then only queues the Ack-Request                    *)
SwitchCompletes(log, i) ==
  LET n == Len(BandChangedSteps)
  IN  /\ Len(log) >= i + n - 1
      /\ \A k \in 1..n : log[i + k - 1].op = BandChangedSteps[k]
      /\ \A k \in 3..11 :
           /\ log[i + k - 1].from = log[i + 2].from
           /\ log[i + k - 1].to = log[i + 2].to
      /\ log[i + n - 1].mac = log[i + 2].to
      /\ log[i + n - 1].peer = log[i].peer
      /\ \A j \in (i + n)..Len(log) :
           /\ log[j].op \in {"InsertDefault", "Queue"}
           /\ log[j].mac = log[i + 2].to
      /\ log[i + 2].from # log[i + 2].to =>
           \A qid \in QueueIds :
             FramesFor(txQueue[log[i + 2].from][qid], log[i].peer) = <<>>

(* C39: a band switch runs to completion inside the event that triggered    *)
(* it: between the activation of the new bundle and the last agreement copy  *)
(* the handler makes no other call (no enqueue, no frame receipt, no timer   *)
(* expiry, no second BandChanged), the old MAC holds no frame for the peer   *)
(* when the event ends, and the notification does not start BandChanged      *)
(* again.                                                                    *)
C39_SwitchRunsToCompletion ==
  ~crashed =>
    LET log == lastEvent.log
    IN  /\ Len(Calls(log, "BandChanged")) <= 1
        /\ \A i \in 1..Len(log) :
             log[i].op = "BandChanged" => SwitchCompletes(log, i)

C39_Witness ==
  /\ lastEvent.kind = "Expire"
  /\ Calls(lastEvent.log, "BandChanged") # <<>>
  /\ Calls(lastEvent.log, "Queue") # <<>>
  /\ events # <<>>
  /\ \E m \in MACs : txQueue[m]["DCA"] # <<>>

(* What holds of the EDCA queues in a state: a constructed MAC has a queue   *)
(* for each of the four access categories and no other; the constructor set  *)
(* them up in the order voice, video, best effort, background, and the new   *)
(* MAC holds no frame; frames are held, and sent, only by constructed MACs;  *)
(* setting up a queue for an access category that has one fails the          *)
(* assertion and leaves the queues as they are.                              *)
QueuesAsConstructed ==
  /\ \A m \in MACs : m_edca[m] \in {{}, AcSet}
  /\ lastEvent.kind = "RegularWifiMac" =>
       LET log == lastEvent.log
       IN  /\ ~crashed
           /\ Len(log) = 1 + Len(ACs)
           /\ log[1].op = "RegularWifiMac"
           /\ \A k \in 1..Len(ACs) :
                /\ log[1 + k].op = "SetupEdcaQueue"
                /\ log[1 + k].mac = log[1].mac
                /\ log[1 + k].ac = ACs[k]
           /\ m_edca[log[1].mac] = AcSet
           /\ m_fstId[log[1].mac] = 0
           /\ \A qid \in QueueIds : txQueue[log[1].mac][qid] = <<>>
  /\ \A m \in MACs : \A qid \in QueueIds : txQueue[m][qid] # <<>> => Built(m)
  /\ \A d \in Devices : m_active[d].m_mac # NullMac => Built(m_active[d].m_mac)
  /\ lastEvent.kind = "Send" => Built(lastEvent.mac)
  /\ \A m \in MACs : \A ac \in m_edca[m] :
       /\ SetupEdcaQueue(St, m, ac).crashed
       /\ SetupEdcaQueue(St, m, ac).edca = m_edca

(* No step changes the queues of a constructed MAC *)
QueuesKept == \A m \in MACs : Built(m) => m_edca'[m] = m_edca[m]

(* C40: after the construction of a MAC exactly four access-category queues  *)
(* exist, for voice, video, best effort and background, created in that      *)
(* order before any frame can be enqueued; the set of queues never changes   *)
(* afterwards, and setting up a queue for an access category that already    *)
(* has one is an assertion failure.                                          *)
C40_FourQueuesFromConstruction ==
  []QueuesAsConstructed /\ [][QueuesKept]_vars

C40_Witness ==
  /\ lastEvent.kind = "RegularWifiMac"
  /\ \E m \in MACs : \E qid \in AcSet : txQueue[m][qid] # <<>>
  /\ \E m \in MACs : ~Built(m)

=============================================================================
